---- MODULE Spec2Model ----
(***************************************************************************)
(* GraphBus starter project: the in-process message bus                    *)
(* (backend/graphbus_core_mock.py), the agent base class and the wiring    *)
(* of the starter agents (backend/run.py).                                  *)
(*                                                                         *)
(* A Python call chain is a stack of frames, one stack per thread of       *)
(* control.  MessageBus.publish is a frame that iterates the live          *)
(* subscription list of its topic; every handler it calls is a frame on    *)
(* top of it.  An exception unwinds the stack one frame at a time.         *)
(***************************************************************************)
EXTENDS Integers, Sequences, FiniteSets, TLC

VARIABLES
    _subscribers, \* MessageBus._subscribers: topic -> list of <<subscriber_name, handler>>
    subcalls,     \* history: the MessageBus.subscribe calls made so far, in order
    stack,        \* per thread: the call stack, innermost frame last
    status,       \* per thread: "idle", "run" or "raising"
    exc,          \* per thread: the exception in flight or observed by the caller
    result,       \* per thread: how the last top-level call ended
    call,         \* per thread: the last top-level call and the registry it started from
    pubs,         \* per thread, history: the MessageBus.publish calls of the current call chain
    invs,         \* per thread, history: the handler invocations of the current call chain
    boot,         \* run.py: position of the module's bootstrap (the wiring loops) and
                  \* the number of completed runs of _wire_subscriptions
    users,        \* database: committed rows of table users, in commit order
    tasks,        \* database: committed rows of table tasks, in commit order
    session,      \* per thread: rows added to the request's Session and not yet committed
    _pending_welcome, \* TaskManagerAgent._pending_welcome of task_agent
    uuids,        \* number of uuid.uuid4() values drawn so far
    nreq,         \* number of HTTP requests received so far
    commits,      \* per thread, history: the changes its Session committed in this request
    heap          \* the objects handed around by reference: payloads and callables

busvars == <<_subscribers, subcalls, stack, status, exc, result, call, pubs, invs>>
appvars == <<boot, users, tasks, session, _pending_welcome, uuids, nreq, commits>>
vars == <<_subscribers, subcalls, stack, status, exc, result, call, pubs, invs,
          boot, users, tasks, session, _pending_welcome, uuids, nreq, commits, heap>>

(***************************************************************************)
(* Bounds of the model.                                                    *)
(***************************************************************************)
MaxSubs == 3          \* subscribe calls made by the harness
RecursionLimit == 6   \* frames a call chain may hold before RecursionError
MaxRequests == 3      \* HTTP requests served by the application
MaxWirings == 2       \* runs of _wire_subscriptions over the same bus
MaxConcRequests == 2  \* HTTP requests served when two threads serve them

(***************************************************************************)
(* Topics are strings compared by equality; a topic is modelled by its     *)
(* path segments so that "/Tasks" is a proper prefix of "/Tasks/Created".  *)
(***************************************************************************)
Tasks == <<"Tasks">>
TasksCreated == <<"Tasks", "Created">>
HarnessTopics == {Tasks, TasksCreated}

Payloads == {"p1", "p2"}
None == "None"

(***************************************************************************)
(* Handlers of the harness: plain callables given to MessageBus.subscribe. *)
(*   rec   returns normally                                                *)
(*   boom  raises ValueError                                               *)
(*   fwd   calls bus.publish("/Tasks/Created", payload), then returns      *)
(*   mut   writes to the payload, then returns                             *)
(***************************************************************************)
Fn(name) == [self |-> "None", fn |-> name]

\* The (subscriber_name, handler) pairs the harness subscribes: the name is
\* left at its default "" or given.
HarnessEntries == {<<"", Fn("rec")>>, <<"s", Fn("rec")>>, <<"", Fn("boom")>>, <<"", Fn("fwd")>>}

IsPrefix(s, t) == Len(s) <= Len(t) /\ SubSeq(t, 1, Len(s)) = s

(***************************************************************************)
(* dict.setdefault(k, []) and dict.get(k, [])                              *)
(***************************************************************************)
setdefault(d, k) ==
    IF k \in DOMAIN d THEN d
    ELSE [x \in DOMAIN d \cup {k} |-> IF x = k THEN <<>> ELSE d[x]]

\* dict.get(k, []) gives the list stored under exactly the key k, or a new
\* empty list that the dict does not hold.  The list is named by its key.
FreshList == <<"[]">>

get_prefix(d, k) ==
    IF \E x \in DOMAIN d : IsPrefix(x, k)
    THEN CHOOSE x \in DOMAIN d : IsPrefix(x, k)
    ELSE FreshList

get(d, k) == IF k \in DOMAIN d THEN k ELSE FreshList

\* The present content of the list named ref.
deref(d, ref) == IF ref \in DOMAIN d THEN d[ref] ELSE <<>>

(***************************************************************************)
(* MessageBus.subscribe: setdefault(topic, []).append((name, handler))     *)
(***************************************************************************)
subscribe_front(d, topic, handler, subscriber_name) ==
    [setdefault(d, topic) EXCEPT ![topic] = <<<<subscriber_name, handler>>>> \o @]

subscribe_dedup(d, topic, handler, subscriber_name) ==
    IF \E i \in 1..Len(deref(d, topic)) : deref(d, topic)[i] = <<subscriber_name, handler>>
    THEN d
    ELSE [setdefault(d, topic) EXCEPT ![topic] = Append(@, <<subscriber_name, handler>>)]

MessageBus_subscribe(d, topic, handler, subscriber_name) ==
    [setdefault(d, topic) EXCEPT ![topic] = Append(@, <<subscriber_name, handler>>)]

(***************************************************************************)
(* MessageBus.publish reads the registry with dict.get: the registry after *)
(* the lookup is the registry before it.                                   *)
(***************************************************************************)
RegistryAfterGet_setdefault(d, topic) == setdefault(d, topic)

RegistryAfterGet(d, topic) == d

(***************************************************************************)
(* The for loop of publish: the entry the iterator yields at position idx, *)
(* and the argument the handler is called with.                            *)
(***************************************************************************)
NextEntry_reversed(list, idx) == list[Len(list) - idx]

NextEntry(list, idx) == list[idx + 1]

HandlerArg_other(topic, payload) == CHOOSE q \in Payloads : q # payload

HandlerArg(topic, payload) == payload

(***************************************************************************)
(* A call puts the callee's frame on top of the caller's: the caller       *)
(* resumes only when the callee has returned or raised.                    *)
(***************************************************************************)
Call_deferred(stk, frame) == <<frame>> \o stk

Call(stk, frame) == Append(stk, frame)

(***************************************************************************)
(* No frame of the bus or of the agents has a try/except: an exception      *)
(* passing through a frame ends it.                                        *)
(***************************************************************************)
ExceptionHandled_publish(frame) == frame.kind = "publish"

ExceptionHandled_node(frame) == frame.kind = "node"

ExceptionHandled(frame) == FALSE

(***************************************************************************)
(* GraphBusNode.__init__ keeps the bus it is given; the harness has one    *)
(* node constructed with the bus and one constructed without.              *)
(***************************************************************************)
HarnessAgents == {"Node", "BareNode"}

bus_of(agent) == IF agent = "BareNode" THEN None ELSE "bus"

(***************************************************************************)
(* GraphBusNode.publish: "if self._bus:" delegates to the bus.             *)
(***************************************************************************)
Delegates_never(agent) == FALSE

Delegates(agent) == bus_of(agent) # None

(***************************************************************************)
(* Frames.  idx is the position of a publish frame's iterator; pc is the   *)
(* position inside a handler or an agent method; id is the index of the    *)
(* frame's record in pubs (publish) or invs (handler); list names the list *)
(* a publish frame iterates.                                               *)
(***************************************************************************)
Frame0 ==
    [kind |-> "", fn |-> "", topic |-> <<>>, payload |-> "", idx |-> 0,
     list |-> FreshList, h |-> Fn(""), pc |-> 0, id |-> 0, agent |-> "",
     args |-> <<>>, ret |-> <<>>, loc |-> <<>>]

PubFrame(topic, payload, list, id) ==
    [Frame0 EXCEPT !.kind = "publish", !.topic = topic, !.payload = payload,
                   !.list = list, !.id = id]

HandlerFrame(h, payload, id) ==
    [Frame0 EXCEPT !.kind = "handler", !.h = h, !.payload = payload, !.id = id]

NodeFrame(agent, topic, payload) ==
    [Frame0 EXCEPT !.kind = "node", !.agent = agent, !.topic = topic,
                   !.payload = payload]

PubRec(topic, payload, parent) ==
    [topic |-> topic, payload |-> payload, parent |-> parent, state |-> "open"]

\* The content of the object a reference names; a value that is not a reference
\* is its own content.
Content(ref) == IF ref \in DOMAIN heap THEN heap[ref] ELSE ref

\* seen: the content of the argument when the handler is called
InvRec(pub, h, arg) ==
    [pub |-> pub, h |-> h, arg |-> arg, state |-> "open", exc |-> None,
     seen |-> Content(arg)]

EmptyDict == [x \in {} |-> <<>>]

NoCall == [kind |-> "none", agent |-> "", topic |-> <<>>, payload |-> "", subs0 |-> EmptyDict]

Threads == DOMAIN stack

Top(t) == stack[t][Len(stack[t])]

Pop(stk) == SubSeq(stk, 1, Len(stk) - 1)

SetTop(stk, f) == [stk EXCEPT ![Len(stk)] = f]

\* A publish that iterates a copy of the list made when the publish was called.
Iterated_snapshot(f) ==
    LET t == CHOOSE u \in Threads : \E k \in 1..Len(stack[u]) : stack[u][k] = f
    IN deref(call[t].subs0, f.list)

\* The list a publish frame iterates is the list object the lookup gave it,
\* read anew at every step of the loop.
Iterated(f) == deref(_subscribers, f.list)

\* A thread whose stack became stk after a return.
Returned(t, stk) ==
    /\ stack' = [stack EXCEPT ![t] = stk]
    /\ status' = [status EXCEPT ![t] = IF stk = <<>> THEN "idle" ELSE "run"]
    /\ result' = [result EXCEPT ![t] = IF stk = <<>> THEN "ok" ELSE @]
    /\ exc' = exc

\* The top frame of thread t raises e.
Raise(t, e) ==
    /\ status' = [status EXCEPT ![t] = "raising"]
    /\ exc' = [exc EXCEPT ![t] = e]
    /\ UNCHANGED <<stack, result>>

\* A publish that delivers nothing for a topic a publish in progress is delivering.
Delivered_once(d, stk, topic) ==
    IF \E i \in 1..Len(stk) : stk[i].kind = "publish" /\ stk[i].topic = topic
    THEN FreshList
    ELSE get(d, topic)

\* The list a publish made inside a call chain iterates: the lookup of line 39
\* alone decides it, whatever publishes are in progress in the caller's stack.
Delivered(d, stk, topic) == get(d, topic)

\* The caller's frame (already updated to caller) calls bus.publish(topic, payload).
EnterPublish(t, stk, topic, payload, parent) ==
    /\ stack' = [stack EXCEPT ![t] =
           Call(stk, PubFrame(topic, payload, Delivered(_subscribers, stk, topic),
                              Len(pubs[t]) + 1))]
    /\ pubs' = [pubs EXCEPT ![t] = Append(@, PubRec(topic, payload, parent))]
    /\ _subscribers' = RegistryAfterGet(_subscribers, topic)

(***************************************************************************)
(* Harness: a test calls bus.subscribe(topic, handler, subscriber_name=n)  *)
(* between call chains.                                                    *)
(***************************************************************************)
Subscribe(topic, handler, name) ==
    /\ \A t \in Threads : status[t] = "idle"
    /\ Len(subcalls) < MaxSubs
    /\ _subscribers' = MessageBus_subscribe(_subscribers, topic, handler, name)
    /\ subcalls' = Append(subcalls, [topic |-> topic, handler |-> handler, name |-> name])
    /\ call' = [t \in Threads |-> NoCall]
    /\ pubs' = [t \in Threads |-> <<>>]
    /\ invs' = [t \in Threads |-> <<>>]
    /\ result' = [t \in Threads |-> "none"]
    /\ exc' = [t \in Threads |-> None]
    /\ UNCHANGED <<stack, status>>
    /\ UNCHANGED appvars
    /\ UNCHANGED heap

(***************************************************************************)
(* Harness: a test calls bus.publish(topic, payload) with a dict it has    *)
(* just made.  The payload is a reference; the content of the dict is the  *)
(* number of times a handler has written to it.                            *)
(***************************************************************************)
BusPublish(t, topic, payload) ==
    /\ status[t] = "idle"
    /\ stack' = [stack EXCEPT ![t] =
           <<PubFrame(topic, payload, get(_subscribers, topic), 1)>>]
    /\ pubs' = [pubs EXCEPT ![t] = <<PubRec(topic, payload, 0)>>]
    /\ invs' = [invs EXCEPT ![t] = <<>>]
    /\ _subscribers' = RegistryAfterGet(_subscribers, topic)
    /\ status' = [status EXCEPT ![t] = "run"]
    /\ result' = [result EXCEPT ![t] = "none"]
    /\ exc' = [exc EXCEPT ![t] = None]
    /\ call' = [call EXCEPT ![t] = [kind |-> "bus", agent |-> "", topic |-> topic,
                                    payload |-> payload, subs0 |-> _subscribers]]
    /\ UNCHANGED subcalls
    /\ UNCHANGED appvars
    /\ heap' = [heap EXCEPT ![payload] = 0]

(***************************************************************************)
(* Harness: a test calls agent.publish(topic, payload) on a GraphBusNode.  *)
(***************************************************************************)
NodePublish(t, agent, topic, payload) ==
    /\ status[t] = "idle"
    /\ stack' = [stack EXCEPT ![t] = <<NodeFrame(agent, topic, payload)>>]
    /\ pubs' = [pubs EXCEPT ![t] = <<>>]
    /\ invs' = [invs EXCEPT ![t] = <<>>]
    /\ status' = [status EXCEPT ![t] = "run"]
    /\ result' = [result EXCEPT ![t] = "none"]
    /\ exc' = [exc EXCEPT ![t] = None]
    /\ call' = [call EXCEPT ![t] = [kind |-> "node", agent |-> agent, topic |-> topic,
                                    payload |-> payload, subs0 |-> _subscribers]]
    /\ UNCHANGED <<_subscribers, subcalls>>
    /\ UNCHANGED appvars
    /\ heap' = [heap EXCEPT ![payload] = 0]

(***************************************************************************)
(* GraphBusNode.publish, lines 60-63.                                      *)
(***************************************************************************)
GraphBusNode_publish(t) ==
    /\ status[t] = "run"
    /\ Top(t).kind = "node"
    /\ LET f == Top(t) IN
       IF f.pc = 0 /\ Delegates(f.agent)
       THEN IF Len(stack[t]) >= RecursionLimit
            THEN Raise(t, "RecursionError") /\ UNCHANGED <<_subscribers, pubs>>
            ELSE /\ EnterPublish(t, SetTop(stack[t], [f EXCEPT !.pc = 1]),
                                 f.topic, f.payload, 0)
                 /\ UNCHANGED <<status, exc, result>>
       ELSE Returned(t, Pop(stack[t])) /\ UNCHANGED <<_subscribers, pubs>>
    /\ UNCHANGED <<subcalls, call, invs>>
    /\ UNCHANGED appvars
    /\ UNCHANGED heap

(***************************************************************************)
(* MessageBus.publish, lines 37-40: one step of the for loop.              *)
(***************************************************************************)
MessageBus_publish(t) ==
    /\ status[t] = "run"
    /\ Top(t).kind = "publish"
    /\ LET f == Top(t)
           list == Iterated(f)
       IN IF f.idx < Len(list)
          THEN IF Len(stack[t]) >= RecursionLimit
               THEN Raise(t, "RecursionError") /\ UNCHANGED <<pubs, invs>>
               ELSE LET handler == NextEntry(list, f.idx)[2]
                        arg == HandlerArg(f.topic, f.payload)
                    IN /\ stack' = [stack EXCEPT ![t] =
                              Call(SetTop(stack[t], [f EXCEPT !.idx = f.idx + 1]),
                                   HandlerFrame(handler, arg, Len(invs[t]) + 1))]
                       /\ invs' = [invs EXCEPT ![t] = Append(@, InvRec(f.id, handler, arg))]
                       /\ UNCHANGED <<status, exc, result, pubs>>
          ELSE /\ Returned(t, Pop(stack[t]))
               /\ pubs' = [pubs EXCEPT ![t][f.id].state = "returned"]
               /\ UNCHANGED invs
    /\ UNCHANGED <<_subscribers, subcalls, call>>
    /\ UNCHANGED appvars
    /\ UNCHANGED heap

(***************************************************************************)
(* The harness handlers.                                                   *)
(***************************************************************************)
HandlerRec(t) ==
    /\ status[t] = "run"
    /\ Top(t).kind = "handler" /\ Top(t).h = Fn("rec")
    /\ Returned(t, Pop(stack[t]))
    /\ invs' = [invs EXCEPT ![t][Top(t).id].state = "returned"]
    /\ UNCHANGED <<_subscribers, subcalls, call, pubs>>
    /\ UNCHANGED appvars
    /\ UNCHANGED heap

HandlerBoom(t) ==
    /\ status[t] = "run"
    /\ Top(t).kind = "handler" /\ Top(t).h = Fn("boom")
    /\ Raise(t, "ValueError")
    /\ UNCHANGED <<_subscribers, subcalls, call, pubs, invs>>
    /\ UNCHANGED appvars
    /\ UNCHANGED heap

\* mut writes to the dict it is given (payload["n"] = payload.get("n", 0) + 1)
\* and returns
HandlerMut(t) ==
    /\ status[t] = "run"
    /\ Top(t).kind = "handler" /\ Top(t).h = Fn("mut")
    /\ heap' = [heap EXCEPT ![Top(t).payload] = @ + 1]
    /\ Returned(t, Pop(stack[t]))
    /\ invs' = [invs EXCEPT ![t][Top(t).id].state = "returned"]
    /\ UNCHANGED <<_subscribers, subcalls, call, pubs>>
    /\ UNCHANGED appvars

HandlerFwd(t) ==
    /\ status[t] = "run"
    /\ Top(t).kind = "handler" /\ Top(t).h = Fn("fwd")
    /\ LET f == Top(t) IN
       IF f.pc = 0
       THEN IF Len(stack[t]) >= RecursionLimit
            THEN Raise(t, "RecursionError") /\ UNCHANGED <<_subscribers, pubs, invs>>
            ELSE /\ EnterPublish(t, SetTop(stack[t], [f EXCEPT !.pc = 1]),
                                 TasksCreated, f.payload, f.id)
                 /\ UNCHANGED <<status, exc, result, invs>>
       ELSE /\ Returned(t, Pop(stack[t]))
            /\ invs' = [invs EXCEPT ![t][f.id].state = "returned"]
            /\ UNCHANGED <<_subscribers, pubs>>
    /\ UNCHANGED <<subcalls, call>>
    /\ UNCHANGED appvars
    /\ UNCHANGED heap

(***************************************************************************)
(* An exception in flight leaves the top frame.  A frame that handled it   *)
(* would resume; none does.                                                *)
(***************************************************************************)
Unwind(t) ==
    /\ status[t] = "raising"
    /\ LET f == Top(t)
           stk == Pop(stack[t])
       IN IF ExceptionHandled(f)
          THEN /\ status' = [status EXCEPT ![t] = "run"]
               /\ UNCHANGED <<stack, exc, result, pubs, invs>>
          ELSE /\ stack' = [stack EXCEPT ![t] = stk]
               /\ status' = [status EXCEPT ![t] = IF stk = <<>> THEN "idle" ELSE "raising"]
               /\ result' = [result EXCEPT ![t] = IF stk = <<>> THEN "error" ELSE @]
               /\ exc' = exc
               /\ pubs' = IF f.kind = "publish"
                          THEN [pubs EXCEPT ![t][f.id].state = "raised"]
                          ELSE pubs
               /\ invs' = IF f.kind = "handler"
                          THEN [invs EXCEPT ![t][f.id].state = "raised",
                                            ![t][f.id].exc = exc[t]]
                          ELSE invs
    /\ UNCHANGED <<_subscribers, subcalls, call>>
    \* database.get_db: "finally: db.close()" discards what was not committed
    /\ session' = IF Len(stack[t]) = 1 /\ ~ExceptionHandled(Top(t))
                  THEN [session EXCEPT ![t] = <<>>]
                  ELSE session
    /\ UNCHANGED <<boot, users, tasks, _pending_welcome, uuids, nreq, commits, heap>>

(***************************************************************************)
(* The starter application: run.py builds one bus and four agents and       *)
(* wires the agents' subscribing methods at import.                         *)
(***************************************************************************)
AuthUserRegistered == <<"Auth", "UserRegistered">>
AuthLoginSucceeded == <<"Auth", "LoginSucceeded">>
TasksDeleted == <<"Tasks", "Deleted">>
TasksUpdated == <<"Tasks", "Updated">>

\* getattr(method, "_graphbus_subscribe_topic", None) of a method without the marker
NoTopic == <<>>

_agents_swapped == <<"registration_agent", "auth_agent", "notification_agent", "task_agent">>

\* run.py, _agents
_agents == <<"registration_agent", "auth_agent", "task_agent", "notification_agent">>

\* agent.__class__.__name__
class_name(agent) ==
    CASE agent = "registration_agent" -> "UserRegistrationAgent"
      [] agent = "auth_agent" -> "AuthAgent"
      [] agent = "task_agent" -> "TaskManagerAgent"
      [] agent = "notification_agent" -> "NotificationAgent"

\* inspect.getmembers(agent, predicate=inspect.ismethod): the bound methods of
\* the instance, __init__ and the inherited publish included, sorted by name.
getmembers(agent) ==
    CASE class_name(agent) = "UserRegistrationAgent" ->
            <<"__init__", "publish", "register">>
      [] class_name(agent) = "AuthAgent" ->
            <<"__init__", "login", "publish">>
      [] class_name(agent) = "TaskManagerAgent" ->
            <<"__init__", "create_task", "delete_task", "flush_welcome_tasks",
              "list_tasks", "on_user_registered", "publish", "update_task">>
      [] class_name(agent) = "NotificationAgent" ->
            <<"__init__", "on_login_succeeded", "on_task_created", "on_task_deleted",
              "on_user_registered", "publish">>

\* TaskManagerAgent.on_user_registered without its @subscribe marker.
subscribe_topic_no_welcome(cls, name) ==
    CASE cls = "NotificationAgent" /\ name = "on_user_registered" -> AuthUserRegistered
      [] cls = "NotificationAgent" /\ name = "on_login_succeeded" -> AuthLoginSucceeded
      [] cls = "NotificationAgent" /\ name = "on_task_created" -> TasksCreated
      [] cls = "NotificationAgent" /\ name = "on_task_deleted" -> TasksDeleted
      [] OTHER -> NoTopic

\* The topic the @subscribe decorator stored on a method, NoTopic without it.
subscribe_topic(cls, name) ==
    CASE cls = "TaskManagerAgent" /\ name = "on_user_registered" -> AuthUserRegistered
      [] cls = "NotificationAgent" /\ name = "on_user_registered" -> AuthUserRegistered
      [] cls = "NotificationAgent" /\ name = "on_login_succeeded" -> AuthLoginSucceeded
      [] cls = "NotificationAgent" /\ name = "on_task_created" -> TasksCreated
      [] cls = "NotificationAgent" /\ name = "on_task_deleted" -> TasksDeleted
      [] OTHER -> NoTopic

\* getattr(agent, name): the method bound to the instance
Method(agent, name) == [self |-> agent, fn |-> name]

\* f"{agent.__class__.__name__}.{name}", kept as its two parts
SubscriberName(agent, name) == <<class_name(agent), name>>

\* "if topic is not None"
IsMarked_always(topic) == TRUE

IsMarked(topic) == topic # NoTopic

(***************************************************************************)
(* _wire_subscriptions, run.py lines 37-53: one iteration of the inner     *)
(* loop; the module's last statement calls it once.                        *)
(***************************************************************************)
_wire_subscriptions ==
    /\ boot.pc = "wiring"
    /\ LET agent == _agents[boot.i]
           name == getmembers(agent)[boot.j]
           method == Method(agent, name)
           topic == subscribe_topic(class_name(agent), name)
       IN /\ IF IsMarked(topic)
             THEN /\ _subscribers' = MessageBus_subscribe(_subscribers, topic, method,
                                                         SubscriberName(agent, name))
                  /\ subcalls' = Append(subcalls, [topic |-> topic, handler |-> method,
                                                   name |-> SubscriberName(agent, name)])
             ELSE UNCHANGED <<_subscribers, subcalls>>
          /\ boot' = IF boot.j < Len(getmembers(agent))
                     THEN [boot EXCEPT !.j = boot.j + 1]
                     ELSE IF boot.i < Len(_agents)
                          THEN [boot EXCEPT !.i = boot.i + 1, !.j = 1]
                          ELSE [pc |-> "serving", i |-> 0, j |-> 0, runs |-> boot.runs + 1]
    /\ UNCHANGED <<stack, status, exc, result, call, pubs, invs>>
    /\ UNCHANGED <<users, tasks, session, _pending_welcome, uuids, nreq, commits, heap>>

(***************************************************************************)
(* Strings the registration inspects are sequences of characters.          *)
(***************************************************************************)
MinPasswordLen == 8

WelcomeTitle == "Welcome! Start by exploring the dashboard."

Chars(n) == [i \in 1..n |-> "x"]

RegEmails == {<<"a", "@", "x">>, <<"b", "@", "x">>, <<"a", "x">>}
RegPasswords == {Chars(MinPasswordLen - 1), Chars(MinPasswordLen)}
RegNames == {<<" ">>, <<"n">>}
Salts == {"salt"}

RECURSIVE lstrip(_)
lstrip(s) == IF s = <<>> \/ s[1] # " " THEN s ELSE lstrip(Tail(s))

RECURSIVE rstrip(_)
rstrip(s) == IF s = <<>> \/ s[Len(s)] # " " THEN s ELSE rstrip(SubSeq(s, 1, Len(s) - 1))

\* str.strip()
strip(s) == rstrip(lstrip(s))

\* hashlib.sha256(f"{salt}${password}".encode()).hexdigest(), taken to be collision free
sha256(salt, password) == <<salt, password>>

\* A validation that lets a short password through.
register_invalid_any_password(email, password, name) ==
    IF email = <<>> \/ \A i \in 1..Len(email) : email[i] # "@"
    THEN "Invalid email address"
    ELSE IF strip(name) = <<>>
    THEN "Name is required"
    ELSE ""

\* UserRegistrationAgent.register, lines 53-58: the reason the inputs are refused for
register_invalid(email, password, name) ==
    IF email = <<>> \/ \A i \in 1..Len(email) : email[i] # "@"
    THEN "Invalid email address"
    ELSE IF Len(password) < MinPasswordLen
    THEN "Password must be at least 8 characters"
    ELSE IF strip(name) = <<>>
    THEN "Name is required"
    ELSE ""

\* db.query(User).filter(User.email == email).first() finds a row
EmailTaken(email) == \E i \in 1..Len(users) : users[i].email = email

RouteFrame(fn, args) == [Frame0 EXCEPT !.kind = "route", !.fn = fn, !.args = args]

OpFrame(agent, fn, args) ==
    [Frame0 EXCEPT !.kind = "op", !.agent = agent, !.fn = fn, !.args = args]

\* The caller's frame receives the callee's return value.
SetRet(stk, v) == IF stk = <<>> THEN stk ELSE SetTop(stk, [stk[Len(stk)] EXCEPT !.ret = v])

\* The pending changes of a session applied to the rows of a table: db.add(row),
\* an attribute assignment on a loaded row, db.delete(row).
RECURSIVE ApplyOps(_, _)
ApplyOps(rows, ops) ==
    IF ops = <<>> THEN rows
    ELSE LET o == Head(ops)
             r == CASE o.op = "add" -> Append(rows, o.row)
                    [] o.op = "update" ->
                          [i \in 1..Len(rows) |->
                              IF rows[i].id = o.row.id
                              THEN [rows[i] EXCEPT
                                       !.title = IF o.set.title # <<>> THEN o.set.title[1] ELSE @,
                                       !.done = IF o.set.done # <<>> THEN o.set.done[1] ELSE @]
                              ELSE rows[i]]
                    [] o.op = "delete" -> SelectSeq(rows, LAMBDA x : x.id # o.row.id)
         IN ApplyOps(r, Tail(ops))

\* Session.commit(): the pending changes of the session reach their tables.
Committed(table, rows, t) ==
    ApplyOps(rows, SelectSeq(session[t], LAMBDA r : r.table = table))

\* db.commit() refuses: the unique index on users.email is violated by an added
\* row (IntegrityError), or the UPDATE of a loaded row matches no row
\* (StaleDataError; db.refresh would raise for the same row).  "" when it does not.
CommitError(t) ==
    IF \E k \in 1..Len(session[t]) :
          /\ session[t][k].table = "users" /\ session[t][k].op = "add"
          /\ EmailTaken(session[t][k].row.email)
    THEN "IntegrityError"
    ELSE IF \E k \in 1..Len(session[t]) :
               /\ session[t][k].table = "tasks" /\ session[t][k].op = "update"
               /\ \A i \in 1..Len(tasks) : tasks[i].id # session[t][k].row.id
    THEN "StaleDataError"
    ELSE ""

\* The DELETE of a loaded row matches no row: the ORM warns or raises.
DeleteUnmatched(t) ==
    \E k \in 1..Len(session[t]) :
        /\ session[t][k].table = "tasks" /\ session[t][k].op = "delete"
        /\ \A i \in 1..Len(tasks) : tasks[i].id # session[t][k].row.id

\* db.commit() in frame f of thread t: it raises, or the pending changes reach
\* the tables and the frame goes on to its next statement.
Commit(t, f) ==
    \/ /\ CommitError(t) # ""
       /\ Raise(t, CommitError(t))
       /\ session' = [session EXCEPT ![t] = <<>>]
       /\ UNCHANGED <<users, tasks, commits>>
    \/ /\ CommitError(t) = "" /\ DeleteUnmatched(t)
       /\ Raise(t, "StaleDataError")
       /\ session' = [session EXCEPT ![t] = <<>>]
       /\ UNCHANGED <<users, tasks, commits>>
    \/ /\ CommitError(t) = ""
       /\ users' = Committed("users", users, t)
       /\ tasks' = Committed("tasks", tasks, t)
       /\ commits' = [commits EXCEPT ![t] = @ \o session[t]]
       /\ session' = [session EXCEPT ![t] = <<>>]
       /\ stack' = [stack EXCEPT ![t] = SetTop(@, [f EXCEPT !.pc = f.pc + 1])]
       /\ UNCHANGED <<status, exc, result>>

(***************************************************************************)
(* The statements of the operations that change the database and publish,  *)
(* in the order of the source.                                             *)
(***************************************************************************)
Body_publish_first(fn) ==
    CASE fn = "register" -> <<"check", "publish", "commit", "return">>
      [] fn = "create_task" -> <<"add", "publish", "commit", "refresh", "return">>
      [] fn = "update_task" -> <<"load", "publish", "commit", "refresh", "return">>
      [] fn = "delete_task" -> <<"load", "publish", "commit", "return">>

Body(fn) ==
    CASE fn = "register" -> <<"check", "commit", "publish", "return">>
      [] fn = "create_task" -> <<"add", "commit", "refresh", "publish", "return">>
      [] fn = "update_task" -> <<"load", "commit", "refresh", "publish", "return">>
      [] fn = "delete_task" -> <<"load", "commit", "publish", "return">>

\* The statement frame f is at.
Stmt(f) == Body(f.fn)[f.pc + 1]

\* db.refresh(task) in frame f: the row is read again into the loaded object;
\* InvalidRequestError when the row is no longer there.
Refresh(t, f) ==
    IF \E i \in 1..Len(tasks) : tasks[i].id = f.loc.id
    THEN /\ stack' = [stack EXCEPT ![t] = SetTop(@, [f EXCEPT
                 !.pc = f.pc + 1,
                 !.loc = tasks[CHOOSE i \in 1..Len(tasks) : tasks[i].id = f.loc.id]])]
         /\ UNCHANGED <<status, exc, result>>
    ELSE Raise(t, "InvalidRequestError")

(***************************************************************************)
(* main.py line 16 imports run before the app object exists: a route is    *)
(* called only when the module's last statement, the call of               *)
(* _wire_subscriptions, has returned.                                      *)
(***************************************************************************)
Serving_early == TRUE

Serving == boot.pc = "serving"

(***************************************************************************)
(* main.py: FastAPI calls the route POST /api/auth/register.               *)
(***************************************************************************)
\* FastAPI runs a route in a worker thread with the request's values and a new
\* Session (Depends(get_db)).
Receive(t, fn, args) ==
    /\ Serving
    /\ status[t] = "idle"
    /\ nreq < MaxRequests
    /\ nreq' = nreq + 1
    /\ stack' = [stack EXCEPT ![t] = <<RouteFrame(fn, args)>>]
    /\ status' = [status EXCEPT ![t] = "run"]
    /\ result' = [result EXCEPT ![t] = "none"]
    /\ exc' = [exc EXCEPT ![t] = None]
    /\ pubs' = [pubs EXCEPT ![t] = <<>>]
    /\ invs' = [invs EXCEPT ![t] = <<>>]
    /\ call' = [call EXCEPT ![t] = [kind |-> fn, agent |-> "", topic |-> <<>>,
                                    payload |-> "", subs0 |-> _subscribers,
                                    args |-> args, users0 |-> users, tasks0 |-> tasks]]
    /\ session' = [session EXCEPT ![t] = <<>>]
    /\ commits' = [commits EXCEPT ![t] = <<>>]
    /\ UNCHANGED <<_subscribers, subcalls, boot, users, tasks, _pending_welcome, uuids, heap>>

RegisterRequest(t, email, password, name) ==
    Receive(t, "register", [email |-> email, password |-> password, name |-> name])

(***************************************************************************)
(* main.register, lines 91-101.                                            *)
(***************************************************************************)
route_register(t) ==
    /\ status[t] = "run"
    /\ Top(t).kind = "route" /\ Top(t).fn = "register"
    /\ LET f == Top(t) IN
       CASE f.pc = 0 ->
              /\ stack' = [stack EXCEPT ![t] =
                     Call(SetTop(stack[t], [f EXCEPT !.pc = 1]),
                          OpFrame("registration_agent", "register", f.args))]
              /\ UNCHANGED <<status, exc, result, session>>
         [] f.pc = 1 ->
              /\ stack' = [stack EXCEPT ![t] =
                     Call(SetTop(stack[t], [f EXCEPT !.pc = 2, !.loc = f.ret]),
                          OpFrame("task_agent", "flush_welcome_tasks", <<>>))]
              /\ UNCHANGED <<status, exc, result, session>>
         [] f.pc = 2 ->
              IF ~f.loc.success
              THEN Raise(t, "HTTPException") /\ UNCHANGED session
              ELSE /\ Returned(t, Pop(stack[t]))
                   /\ session' = [session EXCEPT ![t] = <<>>]
    /\ UNCHANGED <<_subscribers, subcalls, call, pubs, invs>>
    /\ UNCHANGED <<boot, users, tasks, _pending_welcome, uuids, nreq, commits, heap>>

(***************************************************************************)
(* UserRegistrationAgent.register, auth_agent.py lines 46-80.              *)
(***************************************************************************)
UserRegistrationAgent_register(t) ==
    /\ status[t] = "run"
    /\ Top(t).kind = "op" /\ Top(t).fn = "register"
    /\ LET f == Top(t)
           a == f.args
           reason == IF register_invalid(a.email, a.password, a.name) # ""
                     THEN register_invalid(a.email, a.password, a.name)
                     ELSE IF EmailTaken(a.email) THEN "Email already registered" ELSE ""
       IN
       CASE Stmt(f) = "check" /\ reason # "" ->
              /\ Returned(t, SetRet(Pop(stack[t]),
                     \* user ids are numbers here: 0 stands for the empty user_id
                     [success |-> FALSE, user_id |-> 0, reason |-> reason]))
              /\ UNCHANGED <<session, users, tasks, uuids, commits>>
         [] Stmt(f) = "check" /\ reason = "" ->
              \E salt \in Salts :
                 LET user == [id |-> uuids + 1, email |-> a.email, name |-> a.name,
                              password_hash |-> <<salt, sha256(salt, a.password)>>]
                 IN /\ uuids' = uuids + 1
                    /\ session' = [session EXCEPT ![t] =
                           Append(@, [table |-> "users", op |-> "add", row |-> user])]
                    /\ stack' = [stack EXCEPT ![t] =
                           SetTop(@, [f EXCEPT !.pc = f.pc + 1, !.loc = user])]
                    /\ UNCHANGED <<status, exc, result, users, tasks, commits>>
         [] Stmt(f) = "commit" ->
              Commit(t, f) /\ UNCHANGED uuids
         [] Stmt(f) = "publish" ->
              /\ stack' = [stack EXCEPT ![t] =
                     Call(SetTop(stack[t], [f EXCEPT !.pc = f.pc + 1]),
                          NodeFrame(f.agent, AuthUserRegistered,
                                    [user_id |-> f.loc.id, email |-> f.loc.email,
                                     name |-> f.loc.name]))]
              /\ UNCHANGED <<status, exc, result, session, users, tasks, uuids, commits>>
         [] Stmt(f) = "return" ->
              /\ Returned(t, SetRet(Pop(stack[t]),
                     [success |-> TRUE, user_id |-> f.loc.id, reason |-> ""]))
              /\ UNCHANGED <<session, users, tasks, uuids, commits>>
    /\ UNCHANGED <<_subscribers, subcalls, call, pubs, invs>>
    /\ UNCHANGED <<boot, _pending_welcome, nreq, heap>>

(***************************************************************************)
(* TaskManagerAgent.flush_welcome_tasks, task_agent.py lines 46-60.        *)
(***************************************************************************)
TaskManagerAgent_flush_welcome_tasks(t) ==
    /\ status[t] = "run"
    /\ Top(t).kind = "op" /\ Top(t).fn = "flush_welcome_tasks"
    /\ LET f == Top(t) IN
       CASE f.pc = 0 /\ f.idx < Len(_pending_welcome) ->
              LET p == _pending_welcome[f.idx + 1]
                  task == [id |-> uuids + 1, title |-> WelcomeTitle, done |-> FALSE,
                           user_id |-> p.user_id]
              IN /\ uuids' = uuids + 1
                 /\ session' = [session EXCEPT ![t] =
                        Append(@, [table |-> "tasks", op |-> "add", row |-> task])]
                 /\ stack' = [stack EXCEPT ![t] = SetTop(@, [f EXCEPT !.idx = f.idx + 1])]
                 /\ UNCHANGED <<status, exc, result, users, tasks, _pending_welcome, commits>>
         [] f.pc = 0 /\ f.idx >= Len(_pending_welcome) ->
              /\ stack' = [stack EXCEPT ![t] = SetTop(@, [f EXCEPT !.pc = 1])]
              /\ UNCHANGED <<status, exc, result, session, users, tasks, _pending_welcome,
                             uuids, commits>>
         [] f.pc = 1 ->
              /\ IF _pending_welcome # <<>>
                 THEN Commit(t, f)
                 ELSE /\ stack' = [stack EXCEPT ![t] = SetTop(@, [f EXCEPT !.pc = 2])]
                      /\ UNCHANGED <<status, exc, result, users, tasks, session, commits>>
              /\ UNCHANGED <<_pending_welcome, uuids>>
         [] f.pc = 2 ->
              /\ _pending_welcome' = <<>>
              /\ Returned(t, SetRet(Pop(stack[t]), None))
              /\ UNCHANGED <<session, users, tasks, uuids, commits>>
    /\ UNCHANGED <<_subscribers, subcalls, call, pubs, invs>>
    /\ UNCHANGED <<boot, nreq, heap>>

(***************************************************************************)
(* The subscribing methods of the agents.                                   *)
(***************************************************************************)
\* TaskManagerAgent.on_user_registered, task_agent.py lines 41-44
TaskManagerAgent_on_user_registered(t) ==
    /\ status[t] = "run"
    /\ Top(t).kind = "handler"
    /\ Top(t).h = Method("task_agent", "on_user_registered")
    /\ _pending_welcome' = Append(_pending_welcome, Top(t).payload)
    /\ Returned(t, Pop(stack[t]))
    /\ invs' = [invs EXCEPT ![t][Top(t).id].state = "returned"]
    /\ UNCHANGED <<_subscribers, subcalls, call, pubs>>
    /\ UNCHANGED <<boot, users, tasks, session, uuids, nreq, commits, heap>>

\* A notification handler that publishes again the topic it was invoked for.
NotificationAgent_on_event_republish(t) ==
    /\ status[t] = "run"
    /\ Top(t).kind = "handler"
    /\ Top(t).h.self = "notification_agent"
    /\ LET f == Top(t) IN
       IF f.pc = 0
       THEN IF Len(stack[t]) >= RecursionLimit
            THEN Raise(t, "RecursionError") /\ UNCHANGED <<_subscribers, pubs, invs>>
            ELSE /\ EnterPublish(t, SetTop(stack[t], [f EXCEPT !.pc = 1]),
                                 pubs[t][invs[t][f.id].pub].topic, f.payload, f.id)
                 /\ UNCHANGED <<status, exc, result, invs>>
       ELSE /\ Returned(t, Pop(stack[t]))
            /\ invs' = [invs EXCEPT ![t][f.id].state = "returned"]
            /\ UNCHANGED <<_subscribers, pubs>>
    /\ UNCHANGED <<subcalls, call>>
    /\ UNCHANGED appvars
    /\ UNCHANGED heap

\* NotificationAgent.on_user_registered, on_login_succeeded, on_task_created,
\* on_task_deleted, notification_agent.py lines 40-73: each logs and returns
NotificationAgent_on_event(t) ==
    /\ status[t] = "run"
    /\ Top(t).kind = "handler"
    /\ Top(t).h.self = "notification_agent"
    /\ Returned(t, Pop(stack[t]))
    /\ invs' = [invs EXCEPT ![t][Top(t).id].state = "returned"]
    /\ UNCHANGED <<_subscribers, subcalls, call, pubs>>
    /\ UNCHANGED appvars
    /\ UNCHANGED heap

(***************************************************************************)
(* The other routes of main.py that reach an agent operation that          *)
(* publishes.  The user_id of a task route is the "sub" of a token, which   *)
(* AuthAgent.login issues for the id of a row of users.                    *)
(***************************************************************************)
Titles == {"t1", "t2"}

\* An optional argument: <<>> is None, <<v>> is the value v.
Opt(S) == {<<>>} \cup {<<v>> : v \in S}

\* The (title, done) arguments of the update requests: one sets done, one the title.
UpdateArgs == {<< <<>>, <<TRUE>> >>, << <<"t2">>, <<>> >>}

UserIds == {users[i].id : i \in 1..Len(users)}

LoginRequest(t, email, password) ==
    Receive(t, "login", [email |-> email, password |-> password])

CreateTaskRequest(t, title, user_id) ==
    Receive(t, "create_task", [title |-> title, user_id |-> user_id])

UpdateTaskRequest(t, task_id, user_id, title, done) ==
    Receive(t, "update_task", [task_id |-> task_id, user_id |-> user_id,
                               title |-> title, done |-> done])

DeleteTaskRequest(t, task_id, user_id) ==
    Receive(t, "delete_task", [task_id |-> task_id, user_id |-> user_id])

\* db.query(User).filter(User.email == email).first(): the index of the row, 0 for None
FindUser(email) ==
    IF \E i \in 1..Len(users) : users[i].email = email
    THEN CHOOSE i \in 1..Len(users) : users[i].email = email
    ELSE 0

\* A lookup of the task by its id alone.
FindTask_any_owner(task_id, user_id) ==
    IF \E i \in 1..Len(tasks) : tasks[i].id = task_id
    THEN CHOOSE i \in 1..Len(tasks) : tasks[i].id = task_id
    ELSE 0

\* db.query(Task).filter(Task.id == task_id, Task.user_id == user_id).first()
FindTask(task_id, user_id) ==
    IF \E i \in 1..Len(tasks) : tasks[i].id = task_id /\ tasks[i].user_id = user_id
    THEN CHOOSE i \in 1..Len(tasks) : tasks[i].id = task_id /\ tasks[i].user_id = user_id
    ELSE 0

(***************************************************************************)
(* main.login, lines 104-110; main.create_task, 137-144; main.update_task, *)
(* 147-158; main.delete_task, 161-171.                                     *)
(***************************************************************************)
route_login(t) ==
    /\ status[t] = "run"
    /\ Top(t).kind = "route" /\ Top(t).fn = "login"
    /\ LET f == Top(t) IN
       CASE f.pc = 0 ->
              /\ stack' = [stack EXCEPT ![t] =
                     Call(SetTop(stack[t], [f EXCEPT !.pc = 1]),
                          OpFrame("auth_agent", "login", f.args))]
              /\ UNCHANGED <<status, exc, result, session>>
         [] f.pc = 1 ->
              IF ~f.ret.success
              THEN Raise(t, "HTTPException") /\ UNCHANGED session
              ELSE /\ Returned(t, Pop(stack[t]))
                   /\ session' = [session EXCEPT ![t] = <<>>]
    /\ UNCHANGED <<_subscribers, subcalls, call, pubs, invs>>
    /\ UNCHANGED <<boot, users, tasks, _pending_welcome, uuids, nreq, commits, heap>>

route_create_task(t) ==
    /\ status[t] = "run"
    /\ Top(t).kind = "route" /\ Top(t).fn = "create_task"
    /\ LET f == Top(t) IN
       CASE f.pc = 0 ->
              /\ stack' = [stack EXCEPT ![t] =
                     Call(SetTop(stack[t], [f EXCEPT !.pc = 1]),
                          OpFrame("task_agent", "create_task", f.args))]
              /\ UNCHANGED <<status, exc, result, session>>
         [] f.pc = 1 ->
              /\ Returned(t, Pop(stack[t]))
              /\ session' = [session EXCEPT ![t] = <<>>]
    /\ UNCHANGED <<_subscribers, subcalls, call, pubs, invs>>
    /\ UNCHANGED <<boot, users, tasks, _pending_welcome, uuids, nreq, commits, heap>>

route_update_task(t) ==
    /\ status[t] = "run"
    /\ Top(t).kind = "route" /\ Top(t).fn = "update_task"
    /\ LET f == Top(t) IN
       CASE f.pc = 0 ->
              /\ stack' = [stack EXCEPT ![t] =
                     Call(SetTop(stack[t], [f EXCEPT !.pc = 1]),
                          OpFrame("task_agent", "update_task", f.args))]
              /\ UNCHANGED <<status, exc, result, session>>
         [] f.pc = 1 ->
              \* the operation's result: <<>> is None, <<d>> is the dict d
              IF f.ret = <<>>
              THEN Raise(t, "HTTPException") /\ UNCHANGED session
              ELSE /\ Returned(t, Pop(stack[t]))
                   /\ session' = [session EXCEPT ![t] = <<>>]
    /\ UNCHANGED <<_subscribers, subcalls, call, pubs, invs>>
    /\ UNCHANGED <<boot, users, tasks, _pending_welcome, uuids, nreq, commits, heap>>

route_delete_task(t) ==
    /\ status[t] = "run"
    /\ Top(t).kind = "route" /\ Top(t).fn = "delete_task"
    /\ LET f == Top(t) IN
       CASE f.pc = 0 ->
              /\ stack' = [stack EXCEPT ![t] =
                     Call(SetTop(stack[t], [f EXCEPT !.pc = 1]),
                          OpFrame("task_agent", "delete_task", f.args))]
              /\ UNCHANGED <<status, exc, result, session>>
         [] f.pc = 1 ->
              IF ~f.ret
              THEN Raise(t, "HTTPException") /\ UNCHANGED session
              ELSE /\ Returned(t, Pop(stack[t]))
                   /\ session' = [session EXCEPT ![t] = <<>>]
    /\ UNCHANGED <<_subscribers, subcalls, call, pubs, invs>>
    /\ UNCHANGED <<boot, users, tasks, _pending_welcome, uuids, nreq, commits, heap>>

(***************************************************************************)
(* AuthAgent.login, auth_agent.py lines 110-133.                           *)
(***************************************************************************)
AuthAgent_login(t) ==
    /\ status[t] = "run"
    /\ Top(t).kind = "op" /\ Top(t).fn = "login"
    /\ LET f == Top(t)
           a == f.args
           i == FindUser(a.email)
           \* stored.split("$", 1) gives the salt and the expected hash
           refused == \/ i = 0
                      \/ sha256(users[i].password_hash[1], a.password)
                            # users[i].password_hash[2]
       IN
       CASE f.pc = 0 /\ refused ->
              Returned(t, SetRet(Pop(stack[t]),
                  [success |-> FALSE, token |-> <<>>, reason |-> "Invalid credentials"]))
         [] f.pc = 0 /\ ~refused ->
              /\ stack' = [stack EXCEPT ![t] =
                     Call(SetTop(stack[t], [f EXCEPT !.pc = 1, !.loc = users[i]]),
                          NodeFrame(f.agent, AuthLoginSucceeded,
                                    [user_id |-> users[i].id, email |-> users[i].email]))]
              /\ UNCHANGED <<status, exc, result>>
         [] f.pc = 1 ->
              Returned(t, SetRet(Pop(stack[t]),
                  [success |-> TRUE, token |-> <<f.loc.id, f.loc.email>>, reason |-> ""]))
    /\ UNCHANGED <<_subscribers, subcalls, call, pubs, invs>>
    /\ UNCHANGED appvars
    /\ UNCHANGED heap

(***************************************************************************)
(* TaskManagerAgent.create_task, task_agent.py lines 68-79.                *)
(***************************************************************************)
TaskManagerAgent_create_task(t) ==
    /\ status[t] = "run"
    /\ Top(t).kind = "op" /\ Top(t).fn = "create_task"
    /\ LET f == Top(t)
           a == f.args
       IN
       CASE Stmt(f) = "add" ->
              LET task == [id |-> uuids + 1, title |-> a.title, done |-> FALSE,
                           user_id |-> a.user_id]
              IN /\ uuids' = uuids + 1
                 /\ session' = [session EXCEPT ![t] =
                        Append(@, [table |-> "tasks", op |-> "add", row |-> task])]
                 /\ stack' = [stack EXCEPT ![t] =
                        SetTop(@, [f EXCEPT !.pc = f.pc + 1, !.loc = task])]
                 /\ UNCHANGED <<status, exc, result, users, tasks, commits>>
         [] Stmt(f) = "commit" ->
              Commit(t, f) /\ UNCHANGED uuids
         [] Stmt(f) = "refresh" ->
              Refresh(t, f) /\ UNCHANGED <<session, users, tasks, uuids, commits>>
         [] Stmt(f) = "publish" ->
              /\ stack' = [stack EXCEPT ![t] =
                     Call(SetTop(stack[t], [f EXCEPT !.pc = f.pc + 1]),
                          NodeFrame(f.agent, TasksCreated,
                                    [task_id |-> f.loc.id, title |-> a.title,
                                     user_id |-> a.user_id]))]
              /\ UNCHANGED <<status, exc, result, session, users, tasks, uuids, commits>>
         [] Stmt(f) = "return" ->
              /\ Returned(t, SetRet(Pop(stack[t]), [task_id |-> f.loc.id, title |-> a.title]))
              /\ UNCHANGED <<session, users, tasks, uuids, commits>>
    /\ UNCHANGED <<_subscribers, subcalls, call, pubs, invs>>
    /\ UNCHANGED <<boot, _pending_welcome, nreq, heap>>

(***************************************************************************)
(* TaskManagerAgent.update_task, task_agent.py lines 104-128.              *)
(***************************************************************************)
TaskManagerAgent_update_task(t) ==
    /\ status[t] = "run"
    /\ Top(t).kind = "op" /\ Top(t).fn = "update_task"
    /\ LET f == Top(t)
           a == f.args
           i == FindTask(a.task_id, a.user_id)
       IN
       CASE Stmt(f) = "load" /\ i = 0 ->
              /\ Returned(t, SetRet(Pop(stack[t]), <<>>))
              /\ UNCHANGED <<session, users, tasks, commits>>
         [] Stmt(f) = "load" /\ i # 0 ->
              LET task == [tasks[i] EXCEPT
                              !.title = IF a.title # <<>> THEN a.title[1] ELSE @,
                              !.done = IF a.done # <<>> THEN a.done[1] ELSE @]
              IN /\ session' = [session EXCEPT ![t] =
                        Append(@, [table |-> "tasks", op |-> "update", row |-> tasks[i],
                                   set |-> [title |-> a.title, done |-> a.done]])]
                 /\ stack' = [stack EXCEPT ![t] =
                        SetTop(@, [f EXCEPT !.pc = f.pc + 1, !.loc = task])]
                 /\ UNCHANGED <<status, exc, result, users, tasks, commits>>
         [] Stmt(f) = "commit" ->
              Commit(t, f)
         [] Stmt(f) = "refresh" ->
              Refresh(t, f) /\ UNCHANGED <<session, users, tasks, commits>>
         [] Stmt(f) = "publish" ->
              /\ stack' = [stack EXCEPT ![t] =
                     Call(SetTop(stack[t], [f EXCEPT !.pc = f.pc + 1]),
                          NodeFrame(f.agent, TasksUpdated,
                                    [task_id |-> a.task_id, title |-> f.loc.title,
                                     done |-> f.loc.done]))]
              /\ UNCHANGED <<status, exc, result, session, users, tasks, commits>>
         [] Stmt(f) = "return" ->
              /\ Returned(t, SetRet(Pop(stack[t]),
                     <<[task_id |-> f.loc.id, title |-> f.loc.title, done |-> f.loc.done]>>))
              /\ UNCHANGED <<session, users, tasks, commits>>
    /\ UNCHANGED <<_subscribers, subcalls, call, pubs, invs>>
    /\ UNCHANGED <<boot, _pending_welcome, uuids, nreq, heap>>

(***************************************************************************)
(* TaskManagerAgent.delete_task, task_agent.py lines 134-146.              *)
(***************************************************************************)
TaskManagerAgent_delete_task(t) ==
    /\ status[t] = "run"
    /\ Top(t).kind = "op" /\ Top(t).fn = "delete_task"
    /\ LET f == Top(t)
           a == f.args
           i == FindTask(a.task_id, a.user_id)
       IN
       CASE Stmt(f) = "load" /\ i = 0 ->
              /\ Returned(t, SetRet(Pop(stack[t]), FALSE))
              /\ UNCHANGED <<session, users, tasks, commits>>
         [] Stmt(f) = "load" /\ i # 0 ->
              /\ session' = [session EXCEPT ![t] =
                     Append(@, [table |-> "tasks", op |-> "delete", row |-> tasks[i]])]
              /\ stack' = [stack EXCEPT ![t] =
                     SetTop(@, [f EXCEPT !.pc = f.pc + 1, !.loc = tasks[i]])]
              /\ UNCHANGED <<status, exc, result, users, tasks, commits>>
         [] Stmt(f) = "commit" ->
              Commit(t, f)
         [] Stmt(f) = "publish" ->
              /\ stack' = [stack EXCEPT ![t] =
                     Call(SetTop(stack[t], [f EXCEPT !.pc = f.pc + 1]),
                          NodeFrame(f.agent, TasksDeleted,
                                    [task_id |-> a.task_id, user_id |-> a.user_id]))]
              /\ UNCHANGED <<status, exc, result, session, users, tasks, commits>>
         [] Stmt(f) = "return" ->
              /\ Returned(t, SetRet(Pop(stack[t]), TRUE))
              /\ UNCHANGED <<session, users, tasks, commits>>
    /\ UNCHANGED <<_subscribers, subcalls, call, pubs, invs>>
    /\ UNCHANGED <<boot, _pending_welcome, uuids, nreq, heap>>

AppThreads == {1}

AppInit ==
    /\ _subscribers = EmptyDict
    /\ subcalls = <<>>
    /\ stack = [t \in AppThreads |-> <<>>]
    /\ status = [t \in AppThreads |-> "idle"]
    /\ exc = [t \in AppThreads |-> None]
    /\ result = [t \in AppThreads |-> "none"]
    /\ call = [t \in AppThreads |-> NoCall]
    /\ pubs = [t \in AppThreads |-> <<>>]
    /\ invs = [t \in AppThreads |-> <<>>]
    /\ boot = [pc |-> "wiring", i |-> 1, j |-> 1, runs |-> 0]
    /\ users = <<>>
    /\ tasks = <<>>
    /\ session = [t \in AppThreads |-> <<>>]
    /\ _pending_welcome = <<>>
    /\ uuids = 0
    /\ nreq = 0
    /\ commits = [t \in AppThreads |-> <<>>]
    /\ heap = EmptyDict

AppNext ==
    \/ _wire_subscriptions
    \/ \E t \in Threads, e \in RegEmails, pw \in RegPasswords, n \in RegNames :
          RegisterRequest(t, e, pw, n)
    \/ \E t \in Threads, e \in RegEmails, pw \in RegPasswords : LoginRequest(t, e, pw)
    \/ \E t \in Threads, title \in Titles, u \in UserIds : CreateTaskRequest(t, title, u)
    \/ \E t \in Threads, id \in 1..uuids, u \in UserIds, a \in UpdateArgs :
          UpdateTaskRequest(t, id, u, a[1], a[2])
    \/ \E t \in Threads, id \in 1..uuids, u \in UserIds : DeleteTaskRequest(t, id, u)
    \/ \E t \in Threads : route_register(t)
    \/ \E t \in Threads : route_login(t)
    \/ \E t \in Threads : route_create_task(t)
    \/ \E t \in Threads : route_update_task(t)
    \/ \E t \in Threads : route_delete_task(t)
    \/ \E t \in Threads : AuthAgent_login(t)
    \/ \E t \in Threads : TaskManagerAgent_create_task(t)
    \/ \E t \in Threads : TaskManagerAgent_update_task(t)
    \/ \E t \in Threads : TaskManagerAgent_delete_task(t)
    \/ \E t \in Threads : UserRegistrationAgent_register(t)
    \/ \E t \in Threads : TaskManagerAgent_flush_welcome_tasks(t)
    \/ \E t \in Threads : TaskManagerAgent_on_user_registered(t)
    \/ \E t \in Threads : NotificationAgent_on_event(t)
    \/ \E t \in Threads : GraphBusNode_publish(t)
    \/ \E t \in Threads : MessageBus_publish(t)
    \/ \E t \in Threads : Unwind(t)

AppSpec == AppInit /\ [][AppNext]_vars

(***************************************************************************)
(* GET /api/tasks: main.list_tasks, lines 129-135, and                     *)
(* TaskManagerAgent.list_tasks, task_agent.py lines 85-98.  The rows of    *)
(* tasks are in the order they were inserted, which is the order of        *)
(* created_at.                                                             *)
(***************************************************************************)
\* query(Task).filter(Task.user_id == user_id).order_by(created_at.desc()).all(),
\* each row as the dict of its id, title and done
list_tasks(rows, user_id) ==
    LET own == SelectSeq(rows, LAMBDA r : r.user_id = user_id)
    IN [i \in 1..Len(own) |->
           [id |-> own[Len(own) + 1 - i].id,
            title |-> own[Len(own) + 1 - i].title,
            done |-> own[Len(own) + 1 - i].done]]

ListTasksRequest(t, user_id) == Receive(t, "list_tasks", [user_id |-> user_id])

route_list_tasks(t) ==
    /\ status[t] = "run"
    /\ Top(t).kind = "route" /\ Top(t).fn = "list_tasks"
    /\ LET f == Top(t) IN
       CASE f.pc = 0 ->
              /\ stack' = [stack EXCEPT ![t] =
                     Call(SetTop(stack[t], [f EXCEPT !.pc = 1]),
                          OpFrame("task_agent", "list_tasks", f.args))]
              /\ UNCHANGED <<status, exc, result, session>>
         [] f.pc = 1 ->
              /\ Returned(t, Pop(stack[t]))
              /\ session' = [session EXCEPT ![t] = <<>>]
    /\ UNCHANGED <<_subscribers, subcalls, call, pubs, invs>>
    /\ UNCHANGED <<boot, users, tasks, _pending_welcome, uuids, nreq, commits, heap>>

TaskManagerAgent_list_tasks(t) ==
    /\ status[t] = "run"
    /\ Top(t).kind = "op" /\ Top(t).fn = "list_tasks"
    /\ Returned(t, SetRet(Pop(stack[t]), list_tasks(tasks, Top(t).args.user_id)))
    /\ UNCHANGED <<_subscribers, subcalls, call, pubs, invs>>
    /\ UNCHANGED appvars
    /\ UNCHANGED heap

OwnerNext ==
    \/ \E t \in Threads, u \in UserIds : ListTasksRequest(t, u)
    \/ \E t \in Threads : route_list_tasks(t)
    \/ \E t \in Threads : TaskManagerAgent_list_tasks(t)
    \/ AppNext

OwnerSpec == AppInit /\ [][OwnerNext]_vars

(***************************************************************************)
(* The application with a handler that raises: after the wiring, a caller  *)
(* of bus.subscribe(topic, boom) adds the harness handler boom, which      *)
(* raises ValueError, to one topic of the application.                     *)
(***************************************************************************)
AppTopics == {AuthUserRegistered, TasksCreated, TasksUpdated, TasksDeleted}

\* boom is subscribed to the topic T
Failing(T) ==
    \E k \in 1..Len(deref(_subscribers, T)) : deref(_subscribers, T)[k][2] = Fn("boom")

SubscribeFailing(topic) ==
    /\ boot.pc = "serving"
    /\ \A t \in Threads : status[t] = "idle"
    /\ \A T \in AppTopics : ~Failing(T)
    /\ _subscribers' = MessageBus_subscribe(_subscribers, topic, Fn("boom"), "")
    /\ subcalls' = Append(subcalls, [topic |-> topic, handler |-> Fn("boom"), name |-> ""])
    /\ UNCHANGED <<stack, status, exc, result, call, pubs, invs>>
    /\ UNCHANGED appvars
    /\ UNCHANGED heap

FailNext ==
    \/ \E topic \in AppTopics : SubscribeFailing(topic)
    \/ \E t \in Threads : HandlerBoom(t)
    \/ AppNext

FailSpec == AppInit /\ [][FailNext]_vars

(***************************************************************************)
(* The wiring run again: a caller of run._wire_subscriptions() after the   *)
(* bootstrap starts the loops anew over the same _agents and the same bus. *)
(***************************************************************************)
WireAgain ==
    /\ boot.pc = "serving"
    /\ boot.runs < MaxWirings
    /\ \A t \in Threads : status[t] = "idle"
    /\ boot' = [boot EXCEPT !.pc = "wiring", !.i = 1, !.j = 1]
    /\ call' = [t \in Threads |-> NoCall]
    /\ pubs' = [t \in Threads |-> <<>>]
    /\ invs' = [t \in Threads |-> <<>>]
    /\ result' = [t \in Threads |-> "none"]
    /\ exc' = [t \in Threads |-> None]
    /\ UNCHANGED <<_subscribers, subcalls, stack, status>>
    /\ UNCHANGED <<users, tasks, session, _pending_welcome, uuids, nreq, commits, heap>>

RewireNext ==
    \/ WireAgain
    \/ AppNext

RewireSpec == AppInit /\ [][RewireNext]_vars

(***************************************************************************)
(* Concurrent requests: FastAPI runs the routes, plain "def" functions, in *)
(* the threads of a pool; the threads share the bus, the agents and the    *)
(* database, and interleave between any two statements.                    *)
(***************************************************************************)
ConcThreads == {1, 2}

ConcEmails == {<<"a", "@", "x">>, <<"b", "@", "x">>}

TaskIds == {tasks[i].id : i \in 1..Len(tasks)}

\* The steps a thread takes inside a request.
Step(t) ==
    \/ route_register(t)
    \/ route_login(t)
    \/ route_create_task(t)
    \/ route_update_task(t)
    \/ route_delete_task(t)
    \/ UserRegistrationAgent_register(t)
    \/ AuthAgent_login(t)
    \/ TaskManagerAgent_create_task(t)
    \/ TaskManagerAgent_update_task(t)
    \/ TaskManagerAgent_delete_task(t)
    \/ TaskManagerAgent_flush_welcome_tasks(t)
    \/ TaskManagerAgent_on_user_registered(t)
    \/ NotificationAgent_on_event(t)
    \/ GraphBusNode_publish(t)
    \/ MessageBus_publish(t)
    \/ Unwind(t)

\* The application with one request at a time, where the thread serving a
\* request goes on executing it.
FairAppSpec == AppSpec /\ \A t \in AppThreads : WF_vars(Step(t))

ConcInit ==
    /\ _subscribers = EmptyDict
    /\ subcalls = <<>>
    /\ stack = [t \in ConcThreads |-> <<>>]
    /\ status = [t \in ConcThreads |-> "idle"]
    /\ exc = [t \in ConcThreads |-> None]
    /\ result = [t \in ConcThreads |-> "none"]
    /\ call = [t \in ConcThreads |-> NoCall]
    /\ pubs = [t \in ConcThreads |-> <<>>]
    /\ invs = [t \in ConcThreads |-> <<>>]
    /\ boot = [pc |-> "wiring", i |-> 1, j |-> 1, runs |-> 0]
    /\ users = <<>>
    /\ tasks = <<>>
    /\ session = [t \in ConcThreads |-> <<>>]
    /\ _pending_welcome = <<>>
    /\ uuids = 0
    /\ nreq = 0
    /\ commits = [t \in ConcThreads |-> <<>>]
    /\ heap = EmptyDict

\* The pool hands a request to an idle thread; which one makes no difference to
\* the program, so it is the first.
Accepts(t) ==
    /\ nreq < MaxConcRequests
    /\ \A u \in Threads : u < t => status[u] # "idle"

ConcNext ==
    \/ _wire_subscriptions
    \/ \E t \in Threads, e \in ConcEmails :
          Accepts(t) /\ RegisterRequest(t, e, Chars(MinPasswordLen), <<"n">>)
    \/ \E t \in Threads :
          Accepts(t) /\ LoginRequest(t, <<"a", "@", "x">>, Chars(MinPasswordLen))
    \/ \E t \in Threads, u \in UserIds :
          Accepts(t) /\ CreateTaskRequest(t, "t1", u)
    \/ \E t \in Threads, id \in TaskIds, u \in UserIds :
          Accepts(t) /\ UpdateTaskRequest(t, id, u, <<>>, <<TRUE>>)
    \/ \E t \in Threads, id \in TaskIds, u \in UserIds :
          Accepts(t) /\ DeleteTaskRequest(t, id, u)
    \/ \E t \in Threads : Step(t)

ConcSpec == ConcInit /\ [][ConcNext]_vars

(***************************************************************************)
(* Register requests only, two at a time: the requests that reach the      *)
(* pending-welcome list of the one TaskManagerAgent (run.py line 29).      *)
(***************************************************************************)
RegStep(t) ==
    \/ route_register(t)
    \/ UserRegistrationAgent_register(t)
    \/ TaskManagerAgent_flush_welcome_tasks(t)
    \/ TaskManagerAgent_on_user_registered(t)
    \/ NotificationAgent_on_event(t)
    \/ GraphBusNode_publish(t)
    \/ MessageBus_publish(t)
    \/ Unwind(t)

RegConcNext ==
    \/ _wire_subscriptions
    \/ \E t \in Threads, e \in ConcEmails :
          Accepts(t) /\ RegisterRequest(t, e, Chars(MinPasswordLen), <<"n">>)
    \/ \E t \in Threads : RegStep(t)

RegConcSpec == ConcInit /\ [][RegConcNext]_vars

HarnessThreads == {1}

Init ==
    /\ _subscribers = EmptyDict
    /\ subcalls = <<>>
    /\ stack = [t \in HarnessThreads |-> <<>>]
    /\ status = [t \in HarnessThreads |-> "idle"]
    /\ exc = [t \in HarnessThreads |-> None]
    /\ result = [t \in HarnessThreads |-> "none"]
    /\ call = [t \in HarnessThreads |-> NoCall]
    /\ pubs = [t \in HarnessThreads |-> <<>>]
    /\ invs = [t \in HarnessThreads |-> <<>>]
    /\ boot = [pc |-> "none", i |-> 0, j |-> 0, runs |-> 0]
    /\ users = <<>>
    /\ tasks = <<>>
    /\ session = [t \in HarnessThreads |-> <<>>]
    /\ _pending_welcome = <<>>
    /\ uuids = 0
    /\ nreq = 0
    /\ commits = [t \in HarnessThreads |-> <<>>]
    /\ heap = [p \in Payloads |-> 0]

Next ==
    \/ \E topic \in HarnessTopics, e \in HarnessEntries : Subscribe(topic, e[2], e[1])
    \/ \E t \in Threads, topic \in HarnessTopics, p \in Payloads : BusPublish(t, topic, p)
    \/ \E t \in Threads, a \in HarnessAgents, topic \in HarnessTopics, p \in Payloads :
          NodePublish(t, a, topic, p)
    \/ \E t \in Threads : GraphBusNode_publish(t)
    \/ \E t \in Threads : MessageBus_publish(t)
    \/ \E t \in Threads : HandlerRec(t)
    \/ \E t \in Threads : HandlerBoom(t)
    \/ \E t \in Threads : HandlerFwd(t)
    \/ \E t \in Threads : Unwind(t)

Spec == Init /\ [][Next]_vars

(***************************************************************************)
(* Harness with handlers that write to the payload they are given.         *)
(***************************************************************************)
PayloadEntries == {<<"", Fn("rec")>>, <<"", Fn("mut")>>, <<"", Fn("fwd")>>}

PayloadNext ==
    \/ \E topic \in HarnessTopics, e \in PayloadEntries : Subscribe(topic, e[2], e[1])
    \/ \E t \in Threads, topic \in HarnessTopics, p \in Payloads : BusPublish(t, topic, p)
    \/ \E t \in Threads : MessageBus_publish(t)
    \/ \E t \in Threads : HandlerRec(t)
    \/ \E t \in Threads : HandlerMut(t)
    \/ \E t \in Threads : HandlerFwd(t)
    \/ \E t \in Threads : Unwind(t)

PayloadSpec == Init /\ [][PayloadNext]_vars

(***************************************************************************)
(* Harness with handlers that publish: fwd publishes "/Tasks/Created" and  *)
(* back publishes "/Tasks", each with the payload it was given.  A thread  *)
(* that is inside a call chain goes on running.                            *)
(***************************************************************************)
HandlerBack(t) ==
    /\ status[t] = "run"
    /\ Top(t).kind = "handler" /\ Top(t).h = Fn("back")
    /\ LET f == Top(t) IN
       IF f.pc = 0
       THEN IF Len(stack[t]) >= RecursionLimit
            THEN Raise(t, "RecursionError") /\ UNCHANGED <<_subscribers, pubs, invs>>
            ELSE /\ EnterPublish(t, SetTop(stack[t], [f EXCEPT !.pc = 1]),
                                 Tasks, f.payload, f.id)
                 /\ UNCHANGED <<status, exc, result, invs>>
       ELSE /\ Returned(t, Pop(stack[t]))
            /\ invs' = [invs EXCEPT ![t][f.id].state = "returned"]
            /\ UNCHANGED <<_subscribers, pubs>>
    /\ UNCHANGED <<subcalls, call>>
    /\ UNCHANGED appvars
    /\ UNCHANGED heap

CycleEntries == {<<"", Fn("rec")>>, <<"", Fn("fwd")>>, <<"", Fn("back")>>}

\* The topics a handler publishes.
Publishes(h) ==
    CASE h = Fn("fwd") -> {TasksCreated}
      [] h = Fn("back") -> {Tasks}
      [] OTHER -> {}

\* A step of the call chain thread t is in.
ChainStep(t) ==
    \/ MessageBus_publish(t)
    \/ HandlerRec(t)
    \/ HandlerFwd(t)
    \/ HandlerBack(t)
    \/ Unwind(t)

CycleNext ==
    \/ \E topic \in HarnessTopics, e \in CycleEntries : Subscribe(topic, e[2], e[1])
    \/ \E t \in Threads, topic \in HarnessTopics, p \in Payloads : BusPublish(t, topic, p)
    \/ \E t \in Threads : ChainStep(t)

CycleSpec == Init /\ [][CycleNext]_vars

FairCycleSpec == CycleSpec /\ \A t \in HarnessThreads : WF_vars(ChainStep(t))

(***************************************************************************)
(* Harness with handlers that subscribe while they are being dispatched:   *)
(*   sub    calls bus.subscribe(T, rec, subscriber_name="g") for the topic *)
(*          T it was invoked for, then returns                             *)
(*   resub  calls bus.subscribe(T, resub) for that topic, then returns     *)
(* The subscribe calls, those of the handlers included, are at most        *)
(* MaxSubs.                                                                *)
(***************************************************************************)
\* The topic of the publish that invoked the handler frame f of thread t.
InvokedFor(t, f) == pubs[t][invs[t][f.id].pub].topic

SubscribesInHandler(t, handler, name) ==
    /\ status[t] = "run"
    /\ Len(subcalls) < MaxSubs
    /\ LET f == Top(t)
           topic == InvokedFor(t, f)
       IN /\ _subscribers' = MessageBus_subscribe(_subscribers, topic, handler, name)
          /\ subcalls' = Append(subcalls, [topic |-> topic, handler |-> handler,
                                           name |-> name])
          /\ Returned(t, Pop(stack[t]))
          /\ invs' = [invs EXCEPT ![t][f.id].state = "returned"]
    /\ UNCHANGED <<call, pubs>>
    /\ UNCHANGED appvars
    /\ UNCHANGED heap

HandlerSub(t) ==
    /\ stack[t] # <<>>
    /\ Top(t).kind = "handler" /\ Top(t).h = Fn("sub")
    /\ SubscribesInHandler(t, Fn("rec"), "g")

HandlerResub(t) ==
    /\ stack[t] # <<>>
    /\ Top(t).kind = "handler" /\ Top(t).h = Fn("resub")
    /\ SubscribesInHandler(t, Fn("resub"), "")

DispatchEntries == {<<"", Fn("rec")>>, <<"", Fn("sub")>>, <<"", Fn("resub")>>}

DispatchNext ==
    \/ \E topic \in HarnessTopics, e \in DispatchEntries : Subscribe(topic, e[2], e[1])
    \/ \E t \in Threads, topic \in HarnessTopics, p \in Payloads : BusPublish(t, topic, p)
    \/ \E t \in Threads : MessageBus_publish(t)
    \/ \E t \in Threads : HandlerRec(t)
    \/ \E t \in Threads : HandlerSub(t)
    \/ \E t \in Threads : HandlerResub(t)

DispatchSpec == Init /\ [][DispatchNext]_vars

(***************************************************************************)
(* The decorators of graphbus_core_mock.py, lines 69-109.  A callable (a   *)
(* function or a class) is an object of the heap with its code and its     *)
(* attributes; an attribute is <<>> when absent and <<v>> when set to v.   *)
(***************************************************************************)
AttrNames == {"_graphbus_subscribe_topic", "_graphbus_input_schema",
              "_graphbus_output_schema", "_graphbus_depends_on", "__doc__"}

Callables == {"echo", "Agent"}

\* The callable as the def or class statement made it.
Plain(o) ==
    [code |-> o, attrs |-> [a \in AttrNames |-> IF a = "__doc__" THEN <<"doc">> ELSE <<>>]]

\* fn.name = v
setattr(h, o, name, v) == [h EXCEPT ![o].attrs[name] = <<v>>]

\* list(agent_names): a new list with the elements of the tuple, in order
list(xs) == [i \in 1..Len(xs) |-> xs[i]]

\* A decorator that returns a wrapper in place of the callable it was given.
subscribe_wrapped(h, fn, topic) ==
    [ret |-> "wrapper",
     heap |-> [o \in DOMAIN h \cup {"wrapper"} |->
                  IF o = "wrapper"
                  THEN [code |-> "wrapper",
                        attrs |-> [a \in AttrNames |->
                                      IF a = "_graphbus_subscribe_topic" THEN <<topic>>
                                      ELSE <<>>]]
                  ELSE h[o]]]

\* subscribe(topic)(fn), lines 69-79
subscribe(h, fn, topic) ==
    [ret |-> fn, heap |-> setattr(h, fn, "_graphbus_subscribe_topic", topic)]

\* schema_method(input_schema, output_schema)(fn), lines 82-96
schema_method(h, fn, input_schema, output_schema) ==
    [ret |-> fn,
     heap |-> setattr(setattr(h, fn, "_graphbus_input_schema", input_schema),
                      fn, "_graphbus_output_schema", output_schema)]

\* depends_on(*agent_names)(cls), lines 99-109
depends_on(h, cls, agent_names) ==
    [ret |-> cls, heap |-> setattr(h, cls, "_graphbus_depends_on", list(agent_names))]

\* What calling an object with the argument x gives: its code decides.
Invoke(obj, x) ==
    CASE obj.code = "echo" -> [ret |-> <<x>>, exc |-> None]
      [] obj.code = "Agent" -> [ret |-> <<"Agent", x>>, exc |-> None]
      [] OTHER -> [ret |-> <<>>, exc |-> None]

InputSchemas == {"in1", "in2"}
OutputSchemas == {"out1", "out2"}
AgentNames == {<<"UserRegistrationAgent">>, <<"UserRegistrationAgent", "AuthAgent">>}

\* A module applies a decorator to a callable and binds the result.
Decorated(t, dec, target, args, r) ==
    /\ heap' = r.heap
    /\ call' = [call EXCEPT ![t] =
           [kind |-> "decorate", dec |-> dec, target |-> target, args |-> args,
            ret |-> r.ret, heap0 |-> heap, called |-> FALSE, x |-> "", out |-> <<>>]]
    /\ UNCHANGED <<_subscribers, subcalls, stack, status, exc, result, pubs, invs>>
    /\ UNCHANGED appvars

Apply_subscribe(t, fn, topic) ==
    Decorated(t, "subscribe", fn, <<topic>>, subscribe(heap, fn, topic))

Apply_schema_method(t, fn, input_schema, output_schema) ==
    Decorated(t, "schema_method", fn, <<input_schema, output_schema>>,
              schema_method(heap, fn, input_schema, output_schema))

Apply_depends_on(t, cls, agent_names) ==
    Decorated(t, "depends_on", cls, <<agent_names>>, depends_on(heap, cls, agent_names))

\* The module calls what the decoration was bound to.
CallDecorated(t, x) ==
    /\ call[t].kind = "decorate"
    /\ call' = [call EXCEPT ![t].called = TRUE, ![t].x = x,
                            ![t].out = Invoke(heap[call[t].ret], x)]
    /\ UNCHANGED <<_subscribers, subcalls, stack, status, exc, result, pubs, invs>>
    /\ UNCHANGED appvars
    /\ UNCHANGED heap

DecoInit ==
    /\ _subscribers = EmptyDict
    /\ subcalls = <<>>
    /\ stack = [t \in HarnessThreads |-> <<>>]
    /\ status = [t \in HarnessThreads |-> "idle"]
    /\ exc = [t \in HarnessThreads |-> None]
    /\ result = [t \in HarnessThreads |-> "none"]
    /\ call = [t \in HarnessThreads |-> NoCall]
    /\ pubs = [t \in HarnessThreads |-> <<>>]
    /\ invs = [t \in HarnessThreads |-> <<>>]
    /\ boot = [pc |-> "none", i |-> 0, j |-> 0, runs |-> 0]
    /\ users = <<>>
    /\ tasks = <<>>
    /\ session = [t \in HarnessThreads |-> <<>>]
    /\ _pending_welcome = <<>>
    /\ uuids = 0
    /\ nreq = 0
    /\ commits = [t \in HarnessThreads |-> <<>>]
    /\ heap = [o \in Callables |-> Plain(o)]

DecoNext ==
    \/ \E t \in Threads, o \in Callables, topic \in HarnessTopics : Apply_subscribe(t, o, topic)
    \/ \E t \in Threads, o \in Callables, i \in InputSchemas, u \in OutputSchemas :
          Apply_schema_method(t, o, i, u)
    \/ \E t \in Threads, o \in Callables, names \in AgentNames : Apply_depends_on(t, o, names)
    \/ \E t \in Threads, x \in Payloads : CallDecorated(t, x)

DecoSpec == DecoInit /\ [][DecoNext]_vars

(***************************************************************************)
(* Observations shared by the properties below.                            *)
(***************************************************************************)
\* The handler invocations made by publish call p of thread t, in the order made.
InvsOf(t, p) == SelectSeq(invs[t], LAMBDA r : r.pub = p)

\* The subscribe calls made for a topic, in the order made.
Registered(topic) == SelectSeq(subcalls, LAMBDA c : c.topic = topic)

\* The content of the registry for a topic.
ListOf(d, topic) == IF topic \in DOMAIN d THEN d[topic] ELSE <<>>

Count(seq, P(_)) == Len(SelectSeq(seq, P))

(***************************************************************************)
(* C1: a publish to T invokes the handlers subscribed to T in the order    *)
(* of their subscribe calls, each entry once, each with the payload given  *)
(* to publish; when no handler raises the publish returns having invoked   *)
(* all of them.                                                            *)
(***************************************************************************)
C1_RegistrationOrder ==
    \A t \in Threads : \A p \in 1..Len(pubs[t]) :
        LET reg == Registered(pubs[t][p].topic)
            I == InvsOf(t, p)
        IN /\ Len(I) <= Len(reg)
           /\ \A k \in 1..Len(I) :
                 /\ I[k].h = reg[k].handler
                 /\ I[k].arg = pubs[t][p].payload
           /\ pubs[t][p].state = "returned" => Len(I) = Len(reg)
           /\ (status[t] = "idle" /\ \A i \in 1..Len(invs[t]) : invs[t][i].state # "raised")
                 => pubs[t][p].state = "returned"

C1_Witness ==
    \E t \in Threads :
        /\ status[t] = "idle" /\ result[t] = "ok" /\ call[t].kind = "bus"
        /\ Len(InvsOf(t, 1)) = 2
        /\ InvsOf(t, 1)[1].h # InvsOf(t, 1)[2].h
        /\ \A i \in 1..Len(invs[t]) : invs[t][i].state = "returned"

(***************************************************************************)
(* C2: fail-fast.  When handler hi raises inside a publish, the handlers   *)
(* before it were each invoked and returned, no handler after it is        *)
(* invoked by that publish, the publish does not return normally, and the  *)
(* caller of the outermost publish observes hi's error.                    *)
(***************************************************************************)
C2_FailFast ==
    \A t \in Threads : \A p \in 1..Len(pubs[t]) :
        LET I == InvsOf(t, p) IN
        \A k \in 1..Len(I) :
            I[k].state = "raised" =>
                /\ k = Len(I)
                /\ \A j \in 1..(k - 1) : I[j].state = "returned"
                /\ pubs[t][p].state # "returned"
                /\ status[t] = "idle" =>
                      /\ pubs[t][p].state = "raised"
                      /\ result[t] = "error"
                      /\ exc[t] = I[k].exc

C2_Witness ==
    \E t \in Threads :
        /\ status[t] = "idle" /\ result[t] = "error" /\ call[t].kind = "bus"
        /\ exc[t] = "ValueError"
        /\ Len(Registered(call[t].topic)) = 3
        /\ Len(InvsOf(t, 1)) = 2
        /\ InvsOf(t, 1)[1].state = "returned"
        /\ InvsOf(t, 1)[2].state = "raised"

(***************************************************************************)
(* C3: a publish to a topic without subscriptions returns normally,        *)
(* invokes no handler and leaves the registry as it was: no entry for the  *)
(* topic appears and no other list changes.                                *)
(***************************************************************************)
C3_NoSubscribersNoEffect ==
    \A t \in Threads :
        (call[t].kind = "bus" /\ ListOf(call[t].subs0, call[t].topic) = <<>>) =>
            /\ invs[t] = <<>>
            /\ _subscribers = call[t].subs0
            /\ status[t] # "raising"
            /\ status[t] = "idle" => result[t] = "ok"

C3_Witness ==
    \E t \in Threads :
        /\ status[t] = "idle" /\ result[t] = "ok" /\ call[t].kind = "bus"
        /\ call[t].topic \notin DOMAIN _subscribers
        /\ DOMAIN _subscribers # {}
        /\ invs[t] = <<>>

(***************************************************************************)
(* C4: topic isolation by exact equality.  Every handler a publish to T    *)
(* invokes was subscribed under exactly T; a handler subscribed only under *)
(* another topic, a prefix or an extension of T included, is not invoked;  *)
(* the only subscriber of T is invoked exactly once per publish to T.      *)
(***************************************************************************)
C4_TopicIsolation ==
    \A t \in Threads : \A p \in 1..Len(pubs[t]) :
        LET T == pubs[t][p].topic
            I == InvsOf(t, p)
        IN /\ \A k \in 1..Len(I) :
                 \E i \in 1..Len(subcalls) :
                     subcalls[i].topic = T /\ subcalls[i].handler = I[k].h
           /\ (\A i \in 1..Len(subcalls) : subcalls[i].topic # T) => I = <<>>
           /\ (pubs[t][p].state = "returned" /\ Len(Registered(T)) = 1) =>
                 /\ Len(I) = 1
                 /\ I[1].arg = pubs[t][p].payload

C4_Witness ==
    \E t \in Threads :
        /\ status[t] = "idle" /\ result[t] = "ok" /\ call[t].kind = "bus"
        /\ call[t].topic = TasksCreated
        /\ Len(Registered(Tasks)) = 1
        /\ Len(Registered(TasksCreated)) = 1
        /\ Registered(Tasks)[1].handler # Registered(TasksCreated)[1].handler
        /\ Len(invs[t]) = 1

(***************************************************************************)
(* C5: dispatch is synchronous and depth-first.  A publish is over only    *)
(* when every handler it invoked is over; a handler is over only when the  *)
(* publish calls it made are over; a publish invokes its next handler only *)
(* when the previous one is over; nothing is left running when the         *)
(* outermost call has returned to its caller.                              *)
(***************************************************************************)
C5_SynchronousDepthFirst ==
    \A t \in Threads :
        /\ \A i \in 1..Len(invs[t]) :
              pubs[t][invs[t][i].pub].state # "open" => invs[t][i].state # "open"
        /\ \A p \in 1..Len(pubs[t]) :
              (pubs[t][p].parent # 0 /\ invs[t][pubs[t][p].parent].state # "open")
                  => pubs[t][p].state # "open"
        /\ \A i, j \in 1..Len(invs[t]) :
              (i < j /\ invs[t][i].pub = invs[t][j].pub) => invs[t][i].state # "open"
        /\ status[t] = "idle" =>
              /\ \A i \in 1..Len(invs[t]) : invs[t][i].state # "open"
              /\ \A p \in 1..Len(pubs[t]) : pubs[t][p].state # "open"

C5_Witness ==
    \E t \in Threads :
        /\ Len(pubs[t]) = 2 /\ Len(invs[t]) = 3
        /\ pubs[t][2].parent = 1 /\ pubs[t][2].state = "returned"
        /\ invs[t][1].pub = 1 /\ invs[t][1].state = "returned"
        /\ invs[t][2].pub = 2 /\ invs[t][2].state = "returned"
        /\ invs[t][3].pub = 1 /\ invs[t][3].state = "open"

C7_AppendOnly ==
    [][ /\ \A T \in DOMAIN _subscribers :
              /\ T \in DOMAIN _subscribers'
              /\ Len(_subscribers'[T]) >= Len(_subscribers[T])
              /\ SubSeq(_subscribers'[T], 1, Len(_subscribers[T])) = _subscribers[T]
        /\ subcalls' = subcalls => _subscribers' = _subscribers
        /\ subcalls' # subcalls =>
              LET c == subcalls'[Len(subcalls')] IN
              /\ subcalls' = Append(subcalls, c)
              /\ DOMAIN _subscribers' = DOMAIN _subscribers \cup {c.topic}
              /\ _subscribers'[c.topic]
                    = Append(ListOf(_subscribers, c.topic), <<c.name, c.handler>>)
              /\ \A U \in DOMAIN _subscribers \ {c.topic} :
                    _subscribers'[U] = _subscribers[U]
      ]_vars

C7_Witness ==
    /\ Len(subcalls) = 2
    /\ subcalls[1].topic = subcalls[2].topic
    /\ subcalls[1].handler # subcalls[2].handler
    /\ Len(_subscribers[subcalls[1].topic]) = 2
    /\ \E t \in Threads : status[t] = "idle" /\ result[t] = "ok" /\ Len(invs[t]) = 2

(***************************************************************************)
(* C8: publish on an agent constructed with a bus is bus.publish on that   *)
(* bus: one publish call with the agent's topic and payload, the same      *)
(* handlers in the same order, and the agent's caller sees its outcome.    *)
(* On an agent constructed without a bus it returns normally, invokes no   *)
(* handler and changes nothing.                                            *)
(***************************************************************************)
C8_NodePublish ==
    \A t \in Threads :
        call[t].kind = "node" =>
            IF bus_of(call[t].agent) # None
            THEN /\ Len(pubs[t]) >= 1 =>
                       /\ pubs[t][1].topic = call[t].topic
                       /\ pubs[t][1].payload = call[t].payload
                       /\ pubs[t][1].parent = 0
                 /\ status[t] = "idle" =>
                       /\ Len(pubs[t]) >= 1
                       /\ pubs[t][1].state = "returned" =>
                             /\ result[t] = "ok"
                             /\ [k \in 1..Len(InvsOf(t, 1)) |-> InvsOf(t, 1)[k].h]
                                   = [k \in 1..Len(Registered(call[t].topic)) |->
                                         Registered(call[t].topic)[k].handler]
                       /\ pubs[t][1].state # "returned" =>
                             /\ pubs[t][1].state = "raised"
                             /\ result[t] = "error"
                             /\ exc[t] # None
            ELSE /\ pubs[t] = <<>>
                 /\ invs[t] = <<>>
                 /\ _subscribers = call[t].subs0
                 /\ status[t] # "raising"
                 /\ status[t] = "idle" => result[t] = "ok"

C8_Witness ==
    \E t \in Threads :
        /\ call[t].kind = "node" /\ bus_of(call[t].agent) # None
        /\ status[t] = "idle" /\ result[t] = "ok"
        /\ Len(InvsOf(t, 1)) = 2

C8_WitnessNoBus ==
    \E t \in Threads :
        /\ call[t].kind = "node" /\ bus_of(call[t].agent) = None
        /\ status[t] = "idle" /\ result[t] = "ok"
        /\ DOMAIN _subscribers # {}

(***************************************************************************)
(* C9: after the one run of the wiring over the agent sequence the         *)
(* registry holds exactly one subscription for every (agent, method        *)
(* marked with a topic) pair, under the method's topic and with the name   *)
(* "<AgentTypeName>.<methodName>", and none for a method without a marker  *)
(* (register, login, create_task, flush_welcome_tasks, publish, ...).      *)
(***************************************************************************)
C9_WiringRegistry ==
    boot.pc = "serving" =>
        /\ DOMAIN _subscribers = {AuthUserRegistered, AuthLoginSucceeded,
                                 TasksCreated, TasksDeleted}
        /\ \A i \in 1..Len(_agents) : \A j \in 1..Len(getmembers(_agents[i])) :
              LET a == _agents[i]
                  m == getmembers(a)[j]
                  T == subscribe_topic(class_name(a), m)
                  entry == << <<class_name(a), m>>, [self |-> a, fn |-> m] >>
              IN \A U \in DOMAIN _subscribers :
                    /\ Count(_subscribers[U], LAMBDA e : e[2] = [self |-> a, fn |-> m])
                          = IF U = T THEN 1 ELSE 0
                    /\ Count(_subscribers[U], LAMBDA e : e = entry)
                          = IF U = T THEN 1 ELSE 0
        /\ \A U \in DOMAIN _subscribers : \A k \in 1..Len(_subscribers[U]) :
              /\ \E i \in 1..Len(_agents) : \E j \in 1..Len(getmembers(_agents[i])) :
                    _subscribers[U][k][2] = [self |-> _agents[i], fn |-> getmembers(_agents[i])[j]]
              /\ _subscribers[U][k][2].fn \notin
                    {"register", "login", "create_task", "flush_welcome_tasks", "publish",
                     "update_task", "delete_task", "list_tasks", "__init__"}

C9_Witness ==
    /\ boot.pc = "serving"
    /\ Len(subcalls) = 5
    /\ Len(_subscribers[AuthUserRegistered]) = 2
    /\ _subscribers[TasksCreated]
          = << << <<"NotificationAgent", "on_task_created">>,
                  [self |-> "notification_agent", fn |-> "on_task_created"] >> >>

(***************************************************************************)
(* C10: agent order is delivery order within a topic.  When a publish to T *)
(* invokes a handler of agent Y, every agent X that precedes Y in the      *)
(* wired sequence and has a method subscribed to T has had its handler     *)
(* invoked by that publish and returned.  In the starter application       *)
(* TaskManagerAgent.on_user_registered has returned before                 *)
(* NotificationAgent.on_user_registered starts, on every publish to        *)
(* /Auth/UserRegistered.                                                   *)
(***************************************************************************)
AgentIndex(a) == CHOOSE i \in 1..Len(_agents) : _agents[i] = a

C10_AgentOrder ==
    \A t \in Threads : \A p \in 1..Len(pubs[t]) :
        LET T == pubs[t][p].topic
            I == InvsOf(t, p)
        IN /\ \A l \in 1..Len(I) : \A x \in 1..Len(_agents) :
                 ( /\ x < AgentIndex(I[l].h.self)
                   /\ \E j \in 1..Len(getmembers(_agents[x])) :
                         subscribe_topic(class_name(_agents[x]), getmembers(_agents[x])[j]) = T )
                 => \E k \in 1..(l - 1) :
                       I[k].h.self = _agents[x] /\ I[k].state = "returned"
           /\ T = AuthUserRegistered =>
                 /\ \A l \in 1..Len(I) :
                       I[l].h = [self |-> "notification_agent", fn |-> "on_user_registered"]
                       => \E k \in 1..(l - 1) :
                             /\ I[k].h = [self |-> "task_agent", fn |-> "on_user_registered"]
                             /\ I[k].state = "returned"
                 /\ pubs[t][p].state = "returned" => Len(I) = 2

C10_Witness ==
    \E t \in Threads :
        /\ Len(pubs[t]) = 1 /\ pubs[t][1].topic = AuthUserRegistered
        /\ Len(invs[t]) = 2
        /\ invs[t][1].h.self = "task_agent" /\ invs[t][1].state = "returned"
        /\ invs[t][2].h.self = "notification_agent" /\ invs[t][2].state = "open"

(***************************************************************************)
(* C11: the wiring runs once, at bootstrap, before any route runs.  In     *)
(* every state in which a route (register, login, create, update or delete *)
(* task) has been called, and so in every state in which one of them is    *)
(* inside a publish, the single run of the wiring is over for all agents:  *)
(* the registry holds every marked method of every agent, it is the        *)
(* registry the request started with, and no second run ever starts.       *)
(***************************************************************************)
FullyWired(d) ==
    \A i \in 1..Len(_agents) : \A j \in 1..Len(getmembers(_agents[i])) :
        LET T == subscribe_topic(class_name(_agents[i]), getmembers(_agents[i])[j]) IN
        T # NoTopic =>
            /\ T \in DOMAIN d
            /\ \E k \in 1..Len(d[T]) :
                  d[T][k][2] = [self |-> _agents[i], fn |-> getmembers(_agents[i])[j]]

C11_WiredBeforeTraffic ==
    /\ boot.runs <= 1
    /\ boot.runs = 1 <=> boot.pc = "serving"
    /\ \A t \in Threads :
          (call[t].kind # "none" \/ stack[t] # <<>> \/ pubs[t] # <<>>) =>
              /\ boot.pc = "serving"
              /\ FullyWired(call[t].subs0)
              /\ _subscribers = call[t].subs0
              /\ \A p \in 1..Len(pubs[t]) :
                    pubs[t][p].state = "returned" =>
                        Len(InvsOf(t, p)) = Len(ListOf(call[t].subs0, pubs[t][p].topic))

C11_Witness ==
    \E t \in Threads :
        /\ call[t].kind = "create_task"
        /\ Len(pubs[t]) = 1 /\ pubs[t][1].topic = TasksCreated
        /\ Len(invs[t]) = 1 /\ invs[t][1].state = "open"
        /\ boot.runs = 1

(***************************************************************************)
(* C12: the wiring is not idempotent.  After n runs of the wiring over the *)
(* same agents and the same bus, every wired (topic, method) pair has n    *)
(* subscriptions, and every publish that returns has invoked every wired   *)
(* handler of its topic n times.                                           *)
(***************************************************************************)
C12_WiringNotIdempotent ==
    boot.pc = "serving" =>
        \A i \in 1..Len(_agents) : \A j \in 1..Len(getmembers(_agents[i])) :
            LET T == subscribe_topic(class_name(_agents[i]), getmembers(_agents[i])[j])
                h == [self |-> _agents[i], fn |-> getmembers(_agents[i])[j]]
            IN T # NoTopic =>
                  /\ Count(ListOf(_subscribers, T), LAMBDA e : e[2] = h) = boot.runs
                  /\ \A t \in Threads : \A p \in 1..Len(pubs[t]) :
                        (pubs[t][p].topic = T /\ pubs[t][p].state = "returned") =>
                            Count(InvsOf(t, p), LAMBDA r : r.h = h) = boot.runs

C12_Witness ==
    /\ boot.pc = "serving" /\ boot.runs = 2
    /\ \E t \in Threads :
          /\ status[t] = "idle" /\ result[t] = "ok" /\ call[t].kind = "register"
          /\ Len(pubs[t]) = 1 /\ pubs[t][1].state = "returned"
          /\ Len(InvsOf(t, 1)) = 4
          /\ Count(InvsOf(t, 1),
                   LAMBDA r : r.h = [self |-> "task_agent", fn |-> "on_user_registered"]) = 2

(***************************************************************************)
(* C13: publish after commit.  Every event an operation publishes          *)
(* (/Auth/UserRegistered, /Tasks/Created, /Tasks/Updated, /Tasks/Deleted)  *)
(* is, at the moment of the publish and ever after within the request, the *)
(* event of a change the request's session has already committed: the row  *)
(* added, updated or deleted named by the payload.  A request whose commit *)
(* (or the refresh that follows it) raised has published nothing.          *)
(***************************************************************************)
CommittedChange(t, table, op, id) ==
    \E k \in 1..Len(commits[t]) :
        /\ commits[t][k].table = table
        /\ commits[t][k].op = op
        /\ commits[t][k].row.id = id

C13_PublishAfterCommit ==
    \A t \in Threads :
        /\ \A p \in 1..Len(pubs[t]) :
              LET T == pubs[t][p].topic
                  d == pubs[t][p].payload
              IN /\ T = AuthUserRegistered =>
                       \E k \in 1..Len(commits[t]) :
                           /\ commits[t][k].table = "users" /\ commits[t][k].op = "add"
                           /\ commits[t][k].row.id = d.user_id
                           /\ commits[t][k].row.email = d.email
                           /\ commits[t][k].row.name = d.name
                 /\ T = TasksCreated =>
                       \E k \in 1..Len(commits[t]) :
                           /\ commits[t][k].table = "tasks" /\ commits[t][k].op = "add"
                           /\ commits[t][k].row.id = d.task_id
                           /\ commits[t][k].row.title = d.title
                           /\ commits[t][k].row.user_id = d.user_id
                 /\ T = TasksUpdated => CommittedChange(t, "tasks", "update", d.task_id)
                 /\ T = TasksDeleted => CommittedChange(t, "tasks", "delete", d.task_id)
        /\ exc[t] \in {"IntegrityError", "StaleDataError", "InvalidRequestError"} =>
              /\ pubs[t] = <<>>
              /\ invs[t] = <<>>

C13_Witness ==
    \E t, u \in Threads :
        /\ status[t] = "idle" /\ result[t] = "error" /\ exc[t] = "IntegrityError"
        /\ pubs[t] = <<>>
        /\ Len(pubs[u]) = 1 /\ pubs[u][1].topic = AuthUserRegistered
        /\ Len(invs[u]) = 2 /\ invs[u][2].state = "returned"

(***************************************************************************)
(* C14: the registry is immutable in steady state.  Once the wiring is     *)
(* over no step changes the registry or starts the wiring again, whatever  *)
(* the interleaving of the requests; a step that writes the registry is    *)
(* taken only while no publish is in progress in any thread; and every     *)
(* publish in progress iterates the fully wired list of its topic, the     *)
(* same list for every thread.                                             *)
(***************************************************************************)
Publishing(t) == \E k \in 1..Len(stack[t]) : stack[t][k].kind = "publish"

C14_RegistryImmutable ==
    /\ [](\A t \in Threads : \A k \in 1..Len(stack[t]) :
            stack[t][k].kind = "publish" =>
                /\ boot.pc = "serving"
                /\ FullyWired(_subscribers)
                /\ deref(_subscribers, stack[t][k].list)
                      = ListOf(call[t].subs0, stack[t][k].topic)
                /\ \A u \in Threads : call[u].kind # "none" => call[u].subs0 = call[t].subs0)
    /\ [][ /\ boot.pc = "serving" =>
                /\ _subscribers' = _subscribers
                /\ subcalls' = subcalls
                /\ boot' = boot
           /\ _subscribers' # _subscribers => \A t \in Threads : ~Publishing(t)
         ]_vars

C14_Witness ==
    \E t, u \in Threads :
        /\ t # u
        /\ Publishing(t) /\ Publishing(u)
        /\ Top(t).kind = "handler" /\ Top(u).kind = "handler"
        /\ Top(t).h = Top(u).h

(***************************************************************************)
(* C15: the bus hands the payload on untouched.  Every handler is called   *)
(* with the very object given to publish, nested publishes of that object  *)
(* included; only a step of a handler (or the caller making the object)    *)
(* changes an object; and what a handler finds in the payload is what the  *)
(* handlers called before it in the call chain have written: each write of *)
(* an earlier handler and nothing else.                                    *)
(***************************************************************************)
C15_PayloadUntouched ==
    /\ [](\A t \in Threads : \A i \in 1..Len(invs[t]) :
            /\ invs[t][i].arg = pubs[t][invs[t][i].pub].payload
            /\ invs[t][i].arg \in DOMAIN heap
            /\ invs[t][i].seen
                  = Count(SubSeq(invs[t], 1, i - 1),
                          LAMBDA r : r.h = Fn("mut") /\ r.arg = invs[t][i].arg)
            /\ heap[invs[t][i].arg]
                  = Count(invs[t], LAMBDA r : /\ r.h = Fn("mut") /\ r.state = "returned"
                                              /\ r.arg = invs[t][i].arg))
    /\ [][ heap' # heap =>
              \E t \in Threads :
                  \/ status[t] = "idle" /\ status'[t] = "run"
                  \/ /\ status[t] = "run" /\ Top(t).kind = "handler"
                     /\ heap' = [heap EXCEPT ![Top(t).payload] = heap'[Top(t).payload]]
         ]_vars

C15_Witness ==
    \E t \in Threads :
        /\ status[t] = "idle" /\ result[t] = "ok"
        /\ Len(InvsOf(t, 1)) = 3
        /\ InvsOf(t, 1)[1].h = Fn("mut") /\ InvsOf(t, 1)[1].seen = 0
        /\ InvsOf(t, 1)[2].h = Fn("mut") /\ InvsOf(t, 1)[2].seen = 1
        /\ InvsOf(t, 1)[3].h = Fn("rec") /\ InvsOf(t, 1)[3].seen = 2

(***************************************************************************)
(* C16: an error is never swallowed, at any depth.  When a handler has     *)
(* raised, the last handler invoked in the call chain is the one whose     *)
(* error is in flight: nothing is invoked after it, in the nested publish  *)
(* or in any publish around it.  Every handler that ended by raising is    *)
(* that handler or one of the handlers around it and carries the same      *)
(* error, unchanged; no publish around a raising handler returns normally; *)
(* and the caller of the outermost publish, an agent's publish included,   *)
(* ends with that error.                                                   *)
(***************************************************************************)
ParentInv(t, i) == pubs[t][invs[t][i].pub].parent

RECURSIVE IsAncestor(_, _, _)
IsAncestor(t, a, i) ==
    /\ ParentInv(t, i) # 0
    /\ \/ ParentInv(t, i) = a
       \/ IsAncestor(t, a, ParentInv(t, i))

C16_NoSwallow ==
    \A t \in Threads :
        LET n == Len(invs[t]) IN
        /\ \A i \in 1..n :
              invs[t][i].state = "raised" =>
                  /\ invs[t][n].state = "raised"
                  /\ i = n \/ IsAncestor(t, i, n)
                  /\ invs[t][i].exc = invs[t][n].exc
                  /\ pubs[t][invs[t][i].pub].state # "returned"
                  /\ status[t] # "run"
        /\ (status[t] = "idle" /\ n > 0 /\ invs[t][n].state = "raised") =>
              /\ result[t] = "error"
              /\ exc[t] = invs[t][n].exc
              /\ \A i \in 1..n :
                    (i = n \/ IsAncestor(t, i, n)) =>
                        /\ invs[t][i].state = "raised"
                        /\ pubs[t][invs[t][i].pub].state = "raised"
        /\ status[t] = "raising" => exc[t] # None

C16_Witness ==
    \E t \in Threads :
        /\ call[t].kind = "node" /\ call[t].topic = Tasks
        /\ status[t] = "idle" /\ result[t] = "error" /\ exc[t] = "ValueError"
        /\ Len(Registered(Tasks)) = 2 /\ Len(Registered(TasksCreated)) = 1
        /\ Len(invs[t]) = 2
        /\ invs[t][1].h = Fn("fwd") /\ invs[t][1].state = "raised"
        /\ invs[t][2].h = Fn("boom") /\ invs[t][2].state = "raised"
        /\ pubs[t][1].state = "raised" /\ pubs[t][2].state = "raised"

(***************************************************************************)
(* C17: contract metadata is sidecar data.  A decorator returns the very   *)
(* callable it was given; the callable keeps its code, so a call of the    *)
(* decorated callable gives, for every argument, what a call of the        *)
(* undecorated one gives; the topic, the input and output schema or the    *)
(* dependency list can be read back as given; every other attribute of the *)
(* callable and every other object is as it was.                           *)
(***************************************************************************)
Sets(dec) ==
    CASE dec = "subscribe" -> {"_graphbus_subscribe_topic"}
      [] dec = "schema_method" -> {"_graphbus_input_schema", "_graphbus_output_schema"}
      [] dec = "depends_on" -> {"_graphbus_depends_on"}

C17_SidecarMetadata ==
    \A t \in Threads :
        call[t].kind = "decorate" =>
            LET c == call[t]
                before == c.heap0[c.target]
                obj == heap[c.ret]
            IN /\ c.ret = c.target
               /\ DOMAIN heap = DOMAIN c.heap0
               /\ obj.code = before.code
               /\ obj.code = Plain(c.target).code
               /\ \A x \in Payloads :
                     /\ Invoke(obj, x) = Invoke(before, x)
                     /\ Invoke(obj, x) = Invoke(Plain(c.target), x)
               /\ c.called => c.out = Invoke(Plain(c.target), c.x)
               /\ c.dec = "subscribe" =>
                     obj.attrs["_graphbus_subscribe_topic"] = <<c.args[1]>>
               /\ c.dec = "schema_method" =>
                     /\ obj.attrs["_graphbus_input_schema"] = <<c.args[1]>>
                     /\ obj.attrs["_graphbus_output_schema"] = <<c.args[2]>>
               /\ c.dec = "depends_on" =>
                     obj.attrs["_graphbus_depends_on"] = <<c.args[1]>>
               /\ \A a \in AttrNames \ Sets(c.dec) : obj.attrs[a] = before.attrs[a]
               /\ \A o \in DOMAIN c.heap0 \ {c.target} : heap[o] = c.heap0[o]

C17_Witness ==
    \E t \in Threads :
        /\ call[t].kind = "decorate" /\ call[t].dec = "schema_method"
        /\ call[t].target = "echo" /\ call[t].called /\ call[t].out.ret = <<call[t].x>>
        /\ heap["echo"].attrs["_graphbus_subscribe_topic"] = <<TasksCreated>>
        /\ heap["echo"].attrs["_graphbus_input_schema"] = <<"in2">>
        /\ heap["Agent"].attrs["_graphbus_depends_on"]
              = << <<"UserRegistrationAgent", "AuthAgent">> >>

(***************************************************************************)
(* C18: a welcome task for every new user.  When a register request that   *)
(* no other request interleaves with has completed with success, the       *)
(* tables hold one more user, the one with the request's email, and one    *)
(* more task, the only welcome task owned by that user's id, and the       *)
(* pending-welcome list is empty; when it has completed with a refusal     *)
(* (validation or uniqueness), the tasks and the users are those before    *)
(* the request and the pending-welcome list is empty.                      *)
(***************************************************************************)
WelcomeTasksOf(user_id) ==
    {j \in 1..Len(tasks) : tasks[j].title = WelcomeTitle /\ tasks[j].user_id = user_id}

C18_WelcomeTaskPerUser ==
    \A t \in Threads :
        (call[t].kind = "register" /\ status[t] = "idle") =>
            IF result[t] = "ok"
            THEN /\ Len(users) = Len(call[t].users0) + 1
                 /\ SubSeq(users, 1, Len(call[t].users0)) = call[t].users0
                 /\ LET u == users[Len(users)] IN
                    /\ u.email = call[t].args.email
                    /\ Cardinality(WelcomeTasksOf(u.id)) = 1
                    /\ Len(tasks) = Len(call[t].tasks0) + 1
                    /\ SubSeq(tasks, 1, Len(call[t].tasks0)) = call[t].tasks0
                    /\ tasks[Len(tasks)].user_id = u.id
                    /\ tasks[Len(tasks)].title = WelcomeTitle
                    /\ ~tasks[Len(tasks)].done
                 /\ _pending_welcome = <<>>
            ELSE /\ exc[t] = "HTTPException"
                 /\ tasks = call[t].tasks0
                 /\ users = call[t].users0
                 /\ _pending_welcome = <<>>

\* a second user registered with success after a refused registration and a
\* created task: two users, each with one welcome task
C18_Witness ==
    \E t \in Threads :
        /\ call[t].kind = "register" /\ status[t] = "idle" /\ result[t] = "ok"
        /\ Len(users) = 2 /\ Len(call[t].tasks0) >= 1
        /\ \A i \in 1..2 : Cardinality(WelcomeTasksOf(users[i].id)) = 1

\* a refused registration (the email is taken) has completed
C18_WitnessRefused ==
    \E t \in Threads :
        /\ call[t].kind = "register" /\ status[t] = "idle" /\ result[t] = "error"
        /\ EmailTaken(call[t].args.email) /\ Len(tasks) = 1

(***************************************************************************)
(* C19: welcome tasks under concurrent registrations.  The statement:      *)
(* whatever the interleaving of the register requests, once no request is  *)
(* running every registered user has exactly one persisted welcome task.   *)
(* The code does not keep it: flush_welcome_tasks reads, commits and       *)
(* clears the list shared by the requests in separate steps.               *)
(***************************************************************************)
Quiescent == \A t \in Threads : status[t] = "idle"

C19_OneWelcomeTaskEach ==
    Quiescent => \A i \in 1..Len(users) : Cardinality(WelcomeTasksOf(users[i].id)) = 1

\* a payload appended by one request is cleared by the other before it is persisted
C19_Dropped ==
    /\ Quiescent
    /\ \E i \in 1..Len(users) : WelcomeTasksOf(users[i].id) = {}

\* both requests persist the same pending entry
C19_Duplicated ==
    /\ Quiescent
    /\ \E i \in 1..Len(users) : Cardinality(WelcomeTasksOf(users[i].id)) > 1

(***************************************************************************)
(* C20: the bus has no cycle breaker.  Succ(T) are the topics the handlers *)
(* subscribed to T publish; the registry is cyclic from T when a topic     *)
(* reachable from T reaches itself.  A publish to a topic the registry is  *)
(* cyclic from never returns normally: the chain nests until the           *)
(* interpreter's recursion limit and the outermost publish ends with       *)
(* RecursionError raised out of the innermost publish; nothing but that    *)
(* limit stops a chain, and every nested publish iterates the whole list   *)
(* of its topic.  A publish to a topic the registry is acyclic from goes   *)
(* on to return normally, with every publish of the chain returned.        *)
(***************************************************************************)
Succ(T) ==
    UNION {Publishes(deref(_subscribers, T)[k][2]) : k \in 1..Len(deref(_subscribers, T))}

RECURSIVE ReachN(_, _)
ReachN(S, n) == IF n = 0 THEN S ELSE ReachN(S \cup UNION {Succ(x) : x \in S}, n - 1)

OnCycle(T) == T \in ReachN(Succ(T), Cardinality(HarnessTopics))

Cyclic(T) == \E x \in ReachN({T}, Cardinality(HarnessTopics)) : OnCycle(x)

C20_CyclicNeverReturns ==
    \A t \in HarnessThreads :
        /\ (call[t].kind = "bus" /\ Cyclic(call[t].topic)) =>
              /\ result[t] # "ok"
              /\ pubs[t][1].state # "returned"
              /\ status[t] = "idle" =>
                    /\ result[t] = "error" /\ exc[t] = "RecursionError"
                    /\ pubs[t][1].state = "raised"
                    /\ pubs[t][Len(pubs[t])].state = "raised"
        /\ (call[t].kind = "bus" /\ exc[t] = "RecursionError") =>
              /\ Cyclic(call[t].topic)
              /\ Len(pubs[t]) + Len(invs[t]) >= RecursionLimit
        /\ \A i \in 1..Len(stack[t]) :
              stack[t][i].kind = "publish" =>
                 stack[t][i].list = get(_subscribers, stack[t][i].topic)

C20_AcyclicTerminates ==
    \A t \in HarnessThreads :
        (status[t] = "run" /\ call[t].kind = "bus" /\ ~Cyclic(call[t].topic))
            ~> (/\ status[t] = "idle" /\ result[t] = "ok"
                /\ \A p \in 1..Len(pubs[t]) : pubs[t][p].state = "returned"
                /\ \A i \in 1..Len(invs[t]) : invs[t][i].state = "returned")

C20_NoCycleBreaker == []C20_CyclicNeverReturns /\ C20_AcyclicTerminates

\* a mutual cycle (fwd under "/Tasks", back under "/Tasks/Created") has ended
\* with RecursionError, and so has a handler that publishes to its own topic
C20_Witness ==
    \E t \in HarnessThreads :
        /\ status[t] = "idle" /\ call[t].kind = "bus" /\ exc[t] = "RecursionError"
        /\ call[t].topic = Tasks
        /\ \E k \in 1..Len(deref(_subscribers, Tasks)) :
              deref(_subscribers, Tasks)[k][2] = Fn("fwd")
        /\ \E k \in 1..Len(deref(_subscribers, TasksCreated)) :
              deref(_subscribers, TasksCreated)[k][2] = Fn("back")
        /\ ~\E k \in 1..Len(deref(_subscribers, TasksCreated)) :
              deref(_subscribers, TasksCreated)[k][2] = Fn("fwd")

\* an acyclic chain of two publishes has returned
C20_WitnessAcyclic ==
    \E t \in HarnessThreads :
        /\ status[t] = "idle" /\ call[t].kind = "bus" /\ result[t] = "ok"
        /\ Len(pubs[t]) >= 3 /\ Len(invs[t]) >= 3

(***************************************************************************)
(* C21: in the starter application every publish has nesting depth 1 and   *)
(* terminates.  No publish is made from inside a handler; a thread has at  *)
(* most one publish in progress; the handlers invoked are the wired        *)
(* subscribing operations, each at most once per entry of the topic's      *)
(* list; a step of a handler changes neither the registry nor the          *)
(* publishes made; no publish ends with an exception; and a publish in     *)
(* progress goes on to return.                                             *)
(***************************************************************************)
WiredHandlers ==
    {Method("task_agent", "on_user_registered"),
     Method("notification_agent", "on_user_registered"),
     Method("notification_agent", "on_login_succeeded"),
     Method("notification_agent", "on_task_created"),
     Method("notification_agent", "on_task_deleted")}

PublishFrames(t) == {k \in 1..Len(stack[t]) : stack[t][k].kind = "publish"}

C21_DepthOne ==
    \A t \in AppThreads :
        /\ Cardinality(PublishFrames(t)) <= 1
        /\ \A p \in 1..Len(pubs[t]) :
              /\ pubs[t][p].parent = 0
              /\ pubs[t][p].state # "raised"
              /\ Len(InvsOf(t, p)) <= Len(deref(_subscribers, pubs[t][p].topic))
              /\ pubs[t][p].state = "returned" =>
                    Len(InvsOf(t, p)) = Len(deref(_subscribers, pubs[t][p].topic))
        /\ \A i \in 1..Len(invs[t]) :
              /\ invs[t][i].h \in WiredHandlers
              /\ invs[t][i].state # "raised"
        /\ exc[t] # "RecursionError"

C21_HandlersOnlyReturn ==
    [][\A t \in AppThreads :
          (status[t] = "run" /\ Top(t).kind = "handler" /\ stack'[t] # stack[t]) =>
              /\ _subscribers' = _subscribers
              /\ subcalls' = subcalls
              /\ pubs' = pubs
              /\ stack'[t] = Pop(stack[t])]_vars

C21_PublishReturns ==
    \A t \in AppThreads :
        Publishing(t) ~> (/\ ~Publishing(t)
                          /\ pubs[t] # <<>>
                          /\ pubs[t][Len(pubs[t])].state = "returned")

C21_NestingDepthOne == []C21_DepthOne /\ C21_HandlersOnlyReturn /\ C21_PublishReturns

\* the publish of a register request has returned after its two handlers
C21_Witness ==
    \E t \in AppThreads :
        /\ Len(pubs[t]) = 1 /\ pubs[t][1].topic = AuthUserRegistered
        /\ pubs[t][1].state = "returned"
        /\ Len(invs[t]) = 2
        /\ \A i \in 1..2 : invs[t][i].state = "returned"

(***************************************************************************)
(* C22: failed operations publish nothing and change nothing.  The         *)
(* operation of a request has failed when it returned success = false,     *)
(* None or False to its route; from then on the request has published      *)
(* nothing, invoked no handler and committed nothing, and the users and    *)
(* the tasks are those before the request.  A register with an email       *)
(* without "@", a password shorter than 8, a blank name or an email        *)
(* already registered fails, and so does a login with an unknown email or  *)
(* a wrong password.  A request publishes at most once, the topic of its   *)
(* operation, and a request that has completed with success has published  *)
(* exactly once.                                                           *)
(***************************************************************************)
\* the topic the operation of a request publishes
TopicOf(kind) ==
    CASE kind = "register" -> AuthUserRegistered
      [] kind = "login" -> AuthLoginSucceeded
      [] kind = "create_task" -> TasksCreated
      [] kind = "update_task" -> TasksUpdated
      [] kind = "delete_task" -> TasksDeleted

RequestKinds == {"register", "login", "create_task", "update_task", "delete_task"}

\* the operation of thread t's request has returned its failure value to the route
OpFailed(t) ==
    /\ Len(stack[t]) = 1 /\ status[t] = "run"
    /\ LET r == stack[t][1] IN
       CASE r.fn = "register" /\ r.pc = 1 -> ~r.ret.success
         [] r.fn = "register" /\ r.pc = 2 -> ~r.loc.success
         [] r.fn = "login" /\ r.pc = 1 -> ~r.ret.success
         [] r.fn = "update_task" /\ r.pc = 1 -> r.ret = <<>>
         [] r.fn = "delete_task" /\ r.pc = 1 -> ~r.ret
         [] OTHER -> FALSE

\* the inputs of a register request the operation refuses
RegisterRefused(a, users0) ==
    \/ \A i \in 1..Len(a.email) : a.email[i] # "@"
    \/ Len(a.password) < 8
    \/ \A i \in 1..Len(a.name) : a.name[i] = " "
    \/ \E i \in 1..Len(users0) : users0[i].email = a.email

\* the inputs of a login request the operation refuses
LoginRefused(a, users0) ==
    ~\E i \in 1..Len(users0) :
        /\ users0[i].email = a.email
        /\ users0[i].password_hash[2] = sha256(users0[i].password_hash[1], a.password)

C22_FailedOpsChangeNothing ==
    \A t \in Threads :
        call[t].kind \in RequestKinds =>
            /\ (OpFailed(t) \/ exc[t] = "HTTPException") =>
                  /\ pubs[t] = <<>> /\ invs[t] = <<>> /\ commits[t] = <<>>
                  /\ users = call[t].users0 /\ tasks = call[t].tasks0
            /\ Len(pubs[t]) <= 1
            /\ \A p \in 1..Len(pubs[t]) : pubs[t][p].topic = TopicOf(call[t].kind)
            /\ status[t] = "idle" =>
                  /\ result[t] = "ok" <=> Len(pubs[t]) = 1
                  /\ result[t] = "error" <=> exc[t] = "HTTPException"
                  /\ call[t].kind = "register" =>
                        (result[t] = "error" <=> RegisterRefused(call[t].args, call[t].users0))
                  /\ call[t].kind = "login" =>
                        (result[t] = "error" <=> LoginRefused(call[t].args, call[t].users0))
                  /\ call[t].kind \in {"update_task", "delete_task"} =>
                        (result[t] = "error" <=>
                            ~\E i \in 1..Len(call[t].tasks0) :
                                /\ call[t].tasks0[i].id = call[t].args.task_id
                                /\ call[t].tasks0[i].user_id = call[t].args.user_id)

\* update_task has returned None for a task of another user, with tasks to change
C22_Witness ==
    \E t \in Threads :
        /\ call[t].kind = "update_task" /\ OpFailed(t)
        /\ \E i \in 1..Len(tasks) : tasks[i].id = call[t].args.task_id
        /\ pubs[t] = <<>>

\* a register with a short password, a login with a wrong password and a delete
\* of an absent task have been refused
C22_WitnessRegister ==
    \E t \in Threads :
        /\ call[t].kind = "register" /\ status[t] = "idle" /\ exc[t] = "HTTPException"
        /\ Len(call[t].args.password) < 8 /\ Len(users) = 1

C22_WitnessLogin ==
    \E t \in Threads :
        /\ call[t].kind = "login" /\ status[t] = "idle" /\ exc[t] = "HTTPException"
        /\ \E i \in 1..Len(users) : users[i].email = call[t].args.email

C22_WitnessDelete ==
    \E t \in Threads :
        /\ call[t].kind = "delete_task" /\ OpFailed(t) /\ Len(tasks) >= 1

(***************************************************************************)
(* C23: no rollback on handler failure.  When a handler raises during the  *)
(* publish of register, create_task, update_task or delete_task, the       *)
(* request ends with the handler's exception and no result; the change the *)
(* operation committed before publishing is in the tables; the handlers    *)
(* called before the failing one have returned and their effects stay: the *)
(* payload appended to the pending-welcome list is still pending, since    *)
(* the route never reached flush_welcome_tasks; and whenever               *)
(* flush_welcome_tasks clears the list, a welcome task has been persisted  *)
(* for every payload that was pending.                                     *)
(***************************************************************************)
Pending(user_id) ==
    {k \in 1..Len(_pending_welcome) : _pending_welcome[k].user_id = user_id}

C23_CommittedStays ==
    \A t \in Threads :
        (call[t].kind \in RequestKinds /\ exc[t] = "ValueError") =>
            /\ result[t] # "ok"
            /\ status[t] = "idle" => result[t] = "error"
            /\ Len(pubs[t]) = 1 /\ pubs[t][1].topic = TopicOf(call[t].kind)
            /\ invs[t] # <<>>
            /\ invs[t][Len(invs[t])].h = Fn("boom")
            /\ \A i \in 1..(Len(invs[t]) - 1) : invs[t][i].state = "returned"
            /\ commits[t] # <<>>
            /\ session[t] = <<>>
            /\ users = ApplyOps(call[t].users0,
                                SelectSeq(commits[t], LAMBDA r : r.table = "users"))
            /\ tasks = ApplyOps(call[t].tasks0,
                                SelectSeq(commits[t], LAMBDA r : r.table = "tasks"))
            /\ call[t].kind = "register" =>
                  /\ Len(users) = Len(call[t].users0) + 1
                  /\ users[Len(users)].email = call[t].args.email
                  /\ Cardinality(Pending(users[Len(users)].id)) = 1
                  /\ WelcomeTasksOf(users[Len(users)].id) = {}
            /\ call[t].kind = "create_task" =>
                  /\ Len(tasks) = Len(call[t].tasks0) + 1
                  /\ tasks[Len(tasks)].title = call[t].args.title
            /\ call[t].kind = "update_task" =>
                  \E i \in 1..Len(tasks) :
                      /\ tasks[i].id = call[t].args.task_id
                      /\ call[t].args.title # <<>> => tasks[i].title = call[t].args.title[1]
                      /\ call[t].args.done # <<>> => tasks[i].done = call[t].args.done[1]
            /\ call[t].kind = "delete_task" =>
                  /\ \E i \in 1..Len(call[t].tasks0) :
                        call[t].tasks0[i].id = call[t].args.task_id
                  /\ ~\E i \in 1..Len(tasks) : tasks[i].id = call[t].args.task_id

C23_NextFlushPersists ==
    [][(_pending_welcome # <<>> /\ _pending_welcome' = <<>>) =>
          \A k \in 1..Len(_pending_welcome) :
              \E j \in 1..Len(tasks') :
                  /\ tasks'[j].user_id = _pending_welcome[k].user_id
                  /\ tasks'[j].title = WelcomeTitle]_vars

C23_NoRollback == []C23_CommittedStays /\ C23_NextFlushPersists

\* a register has ended with the handler's exception: the user is committed and
\* the payload is pending, with no welcome task
C23_Witness ==
    \E t \in Threads :
        /\ call[t].kind = "register" /\ status[t] = "idle" /\ exc[t] = "ValueError"
        /\ Len(users) = 1 /\ tasks = <<>> /\ Len(_pending_welcome) = 1

\* the flush of a later register request has persisted the payload left pending
C23_WitnessFlushed ==
    \E t \in Threads :
        /\ call[t].kind = "register" /\ status[t] = "idle" /\ exc[t] = "HTTPException"
        /\ Failing(AuthUserRegistered)
        /\ Len(users) = 1 /\ WelcomeTasksOf(users[1].id) # {} /\ _pending_welcome = <<>>

\* a delete_task has ended with the handler's exception
C23_WitnessDelete ==
    \E t \in Threads :
        /\ call[t].kind = "delete_task" /\ status[t] = "idle" /\ exc[t] = "ValueError"

(***************************************************************************)
(* C24: subscribing during dispatch.  A subscribe(T, g) made by a handler  *)
(* that a publish to T invoked appends g to the very list that publish is  *)
(* iterating; a publish that has returned has invoked, in the order of the *)
(* list, every entry the list holds when it returns, the entries added     *)
(* during the dispatch included and after all earlier ones, so what it     *)
(* invokes is not the list as it was when publish was called; and a        *)
(* publish to a topic whose list holds a handler that subscribes itself    *)
(* again on every invocation never returns and always has an entry left to *)
(* deliver.                                                                *)
(***************************************************************************)
Resubscribing(T) ==
    \E k \in 1..Len(deref(_subscribers, T)) : deref(_subscribers, T)[k][2] = Fn("resub")

C24_AppendedToIteratedList ==
    [][\A t \in HarnessThreads :
          (status[t] = "run" /\ Top(t).kind = "handler" /\ _subscribers' # _subscribers) =>
              LET T == InvokedFor(t, Top(t))
                  f == stack'[t][Len(stack'[t])]
              IN /\ Len(deref(_subscribers, T)) >= 1
                 /\ Len(subcalls') = Len(subcalls) + 1
                 /\ subcalls'[Len(subcalls')].topic = T
                 /\ f.kind = "publish" /\ f.topic = T
                 /\ deref(_subscribers', f.list)
                       = Append(deref(_subscribers, f.list),
                                <<subcalls'[Len(subcalls')].name,
                                  subcalls'[Len(subcalls')].handler>>)
                 /\ f.idx < Len(deref(_subscribers', f.list))]_vars

C24_DeliveredInSamePublish ==
    \A t \in HarnessThreads :
        call[t].kind = "bus" =>
            LET T == call[t].topic
                entries == deref(_subscribers, T)
                done == InvsOf(t, 1)
            IN /\ Len(done) <= Len(entries)
               /\ \A i \in 1..Len(done) : done[i].h = entries[i][2]
               /\ SubSeq(entries, 1, Len(deref(call[t].subs0, T))) = deref(call[t].subs0, T)
               /\ pubs[t][1].state = "returned" =>
                     /\ Len(done) = Len(entries)
                     /\ \A i \in 1..Len(done) : done[i].state = "returned"
               /\ Resubscribing(T) =>
                     /\ pubs[t][1].state = "open"
                     /\ result[t] = "none"
                     /\ (status[t] = "run" /\ Top(t).kind = "publish"
                           /\ \E i \in 1..Len(done) : done[i].h = Fn("resub")) =>
                           Top(t).idx < Len(entries)

C24_SubscribeDuringDispatch == []C24_DeliveredInSamePublish /\ C24_AppendedToIteratedList

\* a publish to a topic with the one handler sub has returned after invoking
\* sub and then the handler sub subscribed during the dispatch
C24_Witness ==
    \E t \in HarnessThreads :
        /\ call[t].kind = "bus" /\ status[t] = "idle" /\ result[t] = "ok"
        /\ Len(deref(call[t].subs0, call[t].topic)) = 1
        /\ Len(InvsOf(t, 1)) = 2
        /\ InvsOf(t, 1)[1].h = Fn("sub") /\ InvsOf(t, 1)[2].h = Fn("rec")
        /\ deref(_subscribers, call[t].topic)[2] = <<"g", Fn("rec")>>

\* a handler that subscribes itself again has been invoked twice by one publish
C24_WitnessResub ==
    \E t \in HarnessThreads :
        /\ call[t].kind = "bus" /\ status[t] = "run"
        /\ Len(deref(call[t].subs0, call[t].topic)) = 1
        /\ Len(invs[t]) = 2 /\ invs[t][2].h = Fn("resub") /\ invs[t][2].state = "returned"
        /\ Top(t).kind = "publish" /\ Top(t).idx = 2

(***************************************************************************)
(* C25: task ownership isolation.  A step that changes the title or done   *)
(* of a task, or removes it, is the commit of an update_task or            *)
(* delete_task called with that task's id and its owner's user_id; no step *)
(* changes the owner of a task.  update_task and delete_task called with   *)
(* the id of a task of another user return what they return for an id no   *)
(* task has, None and False, with the tasks unchanged and nothing          *)
(* published.  list_tasks(user) returns the tasks owned by that user and   *)
(* no other.                                                               *)
(***************************************************************************)
RowOf(rows, id) == {i \in 1..Len(rows) : rows[i].id = id}

\* thread t is at the commit of update_task or delete_task called with the
\* task's id and the user_id of its owner
OwnerCommit(t, row) ==
    /\ status[t] = "run"
    /\ Top(t).kind = "op" /\ Top(t).fn \in {"update_task", "delete_task"}
    /\ Stmt(Top(t)) = "commit"
    /\ Top(t).args.task_id = row.id
    /\ Top(t).args.user_id = row.user_id

C25_OnlyOwnerChanges ==
    [][\A i \in 1..Len(tasks) :
          LET row == tasks[i]
              after == {tasks'[j] : j \in RowOf(tasks', row.id)}
          IN /\ after \subseteq {row} \/ \E t \in Threads : OwnerCommit(t, row)
             /\ \A r \in after : r.user_id = row.user_id]_vars

C25_ForeignAsAbsent ==
    \A t \in Threads :
        /\ (call[t].kind \in {"update_task", "delete_task"}
              /\ ~\E i \in 1..Len(call[t].tasks0) :
                     /\ call[t].tasks0[i].id = call[t].args.task_id
                     /\ call[t].tasks0[i].user_id = call[t].args.user_id) =>
              /\ tasks = call[t].tasks0
              /\ pubs[t] = <<>> /\ invs[t] = <<>> /\ commits[t] = <<>>
              /\ result[t] # "ok"
              /\ (status[t] = "run" /\ Len(stack[t]) = 1 /\ stack[t][1].pc = 1) => OpFailed(t)
              /\ status[t] = "idle" => exc[t] = "HTTPException"
        /\ (call[t].kind = "list_tasks" /\ Len(stack[t]) = 1 /\ stack[t][1].pc = 1) =>
              LET ret == stack[t][1].ret
                  u == call[t].args.user_id
              IN /\ \A k \in 1..Len(ret) :
                       \E i \in 1..Len(tasks) :
                           /\ tasks[i].user_id = u
                           /\ tasks[i].id = ret[k].id
                           /\ tasks[i].title = ret[k].title
                           /\ tasks[i].done = ret[k].done
                 /\ \A i \in 1..Len(tasks) :
                       tasks[i].user_id = u <=> \E k \in 1..Len(ret) : ret[k].id = tasks[i].id
                 /\ Len(ret) = Cardinality({i \in 1..Len(tasks) : tasks[i].user_id = u})

C25_WitnessList ==
    \E t \in Threads :
        /\ call[t].kind = "list_tasks" /\ Len(stack[t]) = 1 /\ stack[t][1].pc = 1
        /\ Len(stack[t][1].ret) = 1 /\ Len(tasks) = 2

\* the owner has deleted a task
C25_WitnessOwnerDelete ==
    \E t \in Threads :
        /\ call[t].kind = "delete_task" /\ status[t] = "idle" /\ result[t] = "ok"
        /\ Len(tasks) < Len(call[t].tasks0)

====
